---------------------------- MODULE Spec2Model ----------------------------
(***************************************************************************)
(* A model of the FTP client library: the FTPClient session, the           *)
(* FTPConnectionPool of client/ftp_client.py, the TransferQueue of         *)
(* client/transfer_queue.py and the FTPClientPool / FTPQueueManager /      *)
(* AdvancedFTPClient of client/advanced_client.py.                          *)
(***************************************************************************)
EXTENDS Integers, Sequences, FiniteSets, TLC

(***************************************************************************)
(* Bounds of the model.                                                    *)
(***************************************************************************)
MaxClients == 3          \* FTPClient objects ever constructed
MaxConnections == 2      \* the max_connections a FTPConnectionPool is built with
MaxReuse == 1            \* reuses counted by the pool statistics
MaxFailures == 1         \* failed creations counted by the pool statistics
MaxClock == 2            \* readings of the wall clock
MaxTasks == 2            \* tasks submitted while the caller also cancels, waits and shuts down
MaxOrderTasks == 3       \* tasks submitted when the caller only submits
NumWorkers == 1          \* max_concurrent_tasks = pool_size of the facade
MaxRetries == 1          \* the largest max_retries a task is submitted with
MaxBytes == 2            \* bytes a transfer reports as transferred, or as its total
MaxLifeRetries == 2      \* the largest max_retries in the task life cycle
MaxLifeTasks == 1        \* tasks submitted when every step of a task's life is followed
MaxLoginRetries == 2     \* the largest retry a login call is made with

ClientIds == 1..MaxClients
NoClient == 0
TaskIds == 1..MaxOrderTasks
NoTask == 0
Workers == 1..NumWorkers

\* TaskPriority
LOW == 0
NORMAL == 1
HIGH == 2
URGENT == 3
\* The priorities tasks are submitted with.
PriorityChoices == {NORMAL, HIGH}

VARIABLES
    clock,               \* time.time() / datetime.now()
    client,              \* every FTPClient object: its cmd_socket, connected, logged_in
    client_count,        \* FTPClient objects constructed so far
    \* ---- FTPConnectionPool (client/ftp_client.py)
    pool,                \* self.pool: [(client, last_used_time), ...]
    active_connections,  \* self.active_connections
    pool_stats,          \* total_connections_created, total_connections_reused, connection_failures
    validation_timer,    \* self.validation_timer: "none" or "set" (a Timer object)
    timer_armed,         \* a started Timer is counting down and has not been cancelled
    validator_pc,        \* the timer thread running _validate_connections
    held,                \* the sessions borrowers got from get_connection and have not released
    \* ---- TransferQueue (client/transfer_queue.py)
    task,                \* every TransferTask, by the number in its id
    task_id_counter,     \* self._task_id_counter
    task_queue,          \* self.task_queue: the heap list of the PriorityQueue
    unfinished_tasks,    \* the PriorityQueue's unfinished_tasks (put / task_done / join)
    active_tasks,        \* self.active_tasks (its keys)
    completed_tasks,     \* self.completed_tasks (its keys)
    failed_tasks,        \* self.failed_tasks (its keys, in insertion order)
    shutdown_flag,       \* self.shutdown_flag
    worker,              \* the TransferWorker threads: where each is in _worker
    retry,               \* the RetryWorker thread: where it is in _retry_worker
    \* ---- FTPClientPool (client/advanced_client.py)
    client_pool,         \* self._pool: the bounded FIFO Queue of idle clients
    clients_in_use,      \* self._clients_in_use (its values)
    pool_lock,           \* the thread inside "with self._lock", or NoThread
    inflight,            \* per session: the threads that sent a command and await its reply
    \* ---- the thread calling the facade
    user,                \* where the caller is, and what its last call returned
    hist                 \* what has happened to each task (for the properties)

poolVars == <<pool, active_connections, pool_stats, validation_timer, timer_armed,
              validator_pc, held>>
sessVars == <<client, client_count>>
taskVars == <<task, task_id_counter, task_queue, unfinished_tasks, active_tasks,
              completed_tasks, failed_tasks, shutdown_flag>>
cpVars == <<client_pool, clients_in_use, pool_lock, inflight>>
queueRest == <<taskVars, worker, retry, cpVars, hist>>
queueVars == <<queueRest, user>>
vars == <<clock, sessVars, poolVars, queueVars>>

(***************************************************************************)
(* FTPClient: the part of a session's state the pools look at.             *)
(***************************************************************************)
\* FTPClient.__init__: no socket, not connected, not logged in.
NewClient == [cmd_socket |-> FALSE, connected |-> FALSE, logged_in |-> FALSE]

\* FTPClient.connect followed by the optional login, both succeeding.
ConnectedClient(login) == [cmd_socket |-> TRUE, connected |-> TRUE, logged_in |-> login]

\* _send_command can put bytes on the wire of session c: it has a socket
\* and its connected flag is set.
CanSendOn(c) == c.cmd_socket /\ c.connected

\* What the network lets a NOOP probe see: the reply 200, another reply (or a
\* read timeout), or a broken connection (send error, end of stream).
ProbeOutcomes == {"ok", "refused", "dropped"}

\* FTPClient._close_connection
close_connection(c) == [c EXCEPT !.cmd_socket = FALSE, !.connected = FALSE, !.logged_in = FALSE]

\* FTPClient.quit: a no-op on a session whose connected flag is already
\* cleared; otherwise QUIT is sent and, whatever comes back, everything is closed.
quit(c) == IF ~c.connected THEN c ELSE close_connection(c)

\* FTPClient.verify_connection under outcome o: the value returned and the
\* session afterwards (_send_command/_read_response clear connected on a
\* socket error or end of stream).
verify_connection(c, o) ==
    IF ~c.cmd_socket \/ ~c.connected THEN [ok |-> FALSE, c |-> c]
    ELSE IF o = "ok" THEN [ok |-> TRUE, c |-> c]
    ELSE IF o = "refused" THEN [ok |-> FALSE, c |-> c]
    ELSE [ok |-> FALSE, c |-> [c EXCEPT !.connected = FALSE]]

Tick ==
    /\ clock < MaxClock
    /\ clock' = clock + 1
    /\ UNCHANGED <<sessVars, poolVars, queueVars>>

(***************************************************************************)
(* FTPConnectionPool (client/ftp_client.py).  Every method body runs under *)
(* self.lock and blocks on nothing else, so each is one step.              *)
(***************************************************************************)
max_connections == MaxConnections
idle_timeout == 1

PoolClients(p) == {p[i][1] : i \in 1..Len(p)}

\* The loop taking idle sessions from the front of the list, the one
\* released first.
RECURSIVE PopIdleOldest(_, _, _)
PopIdleOldest(p, c, o) ==
    IF p = <<>> THEN [pool |-> p, client |-> c, got |-> NoClient]
    ELSE LET s == p[1][1]
             rest == SubSeq(p, 2, Len(p))
             v == verify_connection(c[s], o[s])
         IN IF v.ok
            THEN [pool |-> rest, client |-> [c EXCEPT ![s] = v.c], got |-> s]
            ELSE PopIdleOldest(rest, [c EXCEPT ![s] = quit(v.c)], o)

\* The while loop of get_connection: pop idle sessions from the end of the
\* list until one passes verify_connection; the others are quit.  o gives the probe outcome of each session.
RECURSIVE PopIdle(_, _, _)
PopIdle(p, c, o) ==
    IF p = <<>> THEN [pool |-> p, client |-> c, got |-> NoClient]
    ELSE LET s == p[Len(p)][1]
             rest == SubSeq(p, 1, Len(p) - 1)
             v == verify_connection(c[s], o[s])
         IN IF v.ok
            THEN [pool |-> rest, client |-> [c EXCEPT ![s] = v.c], got |-> s]
            ELSE PopIdle(rest, [c EXCEPT ![s] = quit(v.c)], o)

ValidateKeepAll(p, c, o, now) == [pool |-> p, client |-> c]

\* The for loop of _validate_connections: keep the sessions used within
\* idle_timeout that pass verify_connection, quit the others.
RECURSIVE ValidateScan(_, _, _, _)
ValidateScan(p, c, o, now) ==
    IF p = <<>> THEN [pool |-> <<>>, client |-> c]
    ELSE LET s == p[1][1]
             last_used == p[1][2]
             rest == SubSeq(p, 2, Len(p))
         IN IF now - last_used > idle_timeout
            THEN ValidateScan(rest, [c EXCEPT ![s] = quit(c[s])], o, now)
            ELSE LET v == verify_connection(c[s], o[s])
                 IN IF ~v.ok
                    THEN ValidateScan(rest, [c EXCEPT ![s] = quit(v.c)], o, now)
                    ELSE LET r == ValidateScan(rest, [c EXCEPT ![s] = v.c], o, now)
                         IN [r EXCEPT !.pool = <<p[1]>> \o @]

\* The for loop of close_all: quit every idle session.
RECURSIVE QuitAll(_, _)
QuitAll(p, c) ==
    IF p = <<>> THEN c
    ELSE QuitAll(SubSeq(p, 2, Len(p)), [c EXCEPT ![p[1][1]] = quit(c[p[1][1]])])

\* The count close_all leaves in active_connections.
ActiveAfterCloseAll(n) == 0

\* The capacity test letting one session more through.
AtCapacityLate(n) == n > max_connections

\* "if self.active_connections >= self.max_connections" in get_connection
AtCapacity(n) == n >= max_connections

\* What makes the creation of a session fail: connect() raises, or login()
\* loses the connection, or the server rejects the credentials.
FailureCauses == {"connect", "login_transport", "login_rejected"}

\* The exception get_connection re-raises: the ConnectionError of connect(),
\* or the AuthenticationError login() wraps around whatever made it fail.
CreateError(cause) == IF cause = "connect" THEN "ConnectionError" ELSE "AuthenticationError"

\* The caller between two calls.
Ready == [pc |-> "ready", call |-> "none", ret |-> "none", arg |-> NoTask]

\* get_connection has returned r (with session s), or raised r because of
\* cause, to the borrower calling it.
GotConnection(r, s, cause) ==
    [pc |-> "returned", call |-> "get_connection", ret |-> r, arg |-> s, cause |-> cause]

\* get_connection returning a reused idle session.
get_connection_reuse ==
    /\ pool_stats.reused < MaxReuse
    /\ \E o \in [PoolClients(pool) -> ProbeOutcomes] :
         LET r == PopIdle(pool, client, o)
         IN /\ r.got # NoClient
            /\ pool' = r.pool
            /\ client' = r.client
            /\ active_connections' = active_connections + 1
            /\ pool_stats' = [pool_stats EXCEPT !.reused = @ + 1]
            /\ held' = held \cup {r.got}
            /\ user' = GotConnection("reused", r.got, "none")
    /\ UNCHANGED <<queueRest, clock, client_count, validation_timer, timer_armed, validator_pc>>

\* get_connection finding no usable idle session while active_connections
\* has reached max_connections: returns None.
get_connection_none ==
    /\ \E o \in [PoolClients(pool) -> ProbeOutcomes] :
         LET r == PopIdle(pool, client, o)
         IN /\ r.got = NoClient
            /\ AtCapacity(active_connections)
            /\ pool' = r.pool
            /\ client' = r.client
            /\ pool_stats' = pool_stats
    /\ user' = GotConnection("None", NoClient, "none")
    /\ UNCHANGED <<queueRest, clock, client_count, active_connections, validation_timer, timer_armed,
                   validator_pc, held>>

\* get_connection(username, password) creating a session: FTPClient(),
\* connect(), login() when both credentials are given.
get_connection_create ==
    /\ client_count < MaxClients
    /\ \E o \in [PoolClients(pool) -> ProbeOutcomes], login \in BOOLEAN :
         LET r == PopIdle(pool, client, o)
             s == client_count + 1
         IN /\ r.got = NoClient
            /\ ~AtCapacity(active_connections)
            /\ pool' = r.pool
            /\ client' = [r.client EXCEPT ![s] = ConnectedClient(login)]
            /\ client_count' = s
            /\ active_connections' = active_connections + 1
            /\ pool_stats' = [pool_stats EXCEPT !.created = @ + 1]
            /\ held' = held \cup {s}
            /\ user' = GotConnection("created", s, "none")
    /\ UNCHANGED <<queueRest, clock, validation_timer, timer_armed, validator_pc>>

\* get_connection whose connect() or login() raises: the failure is counted
\* and the exception re-raised.
get_connection_fail ==
    /\ pool_stats.failures < MaxFailures
    /\ \E o \in [PoolClients(pool) -> ProbeOutcomes] :
         LET r == PopIdle(pool, client, o)
         IN /\ r.got = NoClient
            /\ ~AtCapacity(active_connections)
            /\ pool' = r.pool
            /\ client' = r.client
            /\ pool_stats' = [pool_stats EXCEPT !.failures = @ + 1]
    /\ \E cause \in FailureCauses : user' = GotConnection(CreateError(cause), NoClient, cause)
    /\ UNCHANGED <<queueRest, clock, client_count, active_connections, validation_timer, timer_armed,
                   validator_pc, held>>

\* release_connection(client) by the borrower holding it.
release_connection(s) ==
    /\ s \in held
    /\ held' = held \ {s}
    /\ IF ~client[s].connected
       THEN /\ active_connections' = IF active_connections - 1 > 0
                                      THEN active_connections - 1 ELSE 0
            /\ pool' = pool
       ELSE /\ pool' = Append(pool, <<s, clock>>)
            /\ active_connections' = active_connections - 1
    /\ UNCHANGED <<queueVars, clock, sessVars, pool_stats, validation_timer, timer_armed, validator_pc>>

\* close_all
close_all ==
    /\ validation_timer' = "none"
    /\ timer_armed' = IF validation_timer = "set" THEN FALSE ELSE timer_armed
    /\ client' = QuitAll(pool, client)
    /\ pool_stats' = pool_stats
    /\ pool' = <<>>
    /\ active_connections' = ActiveAfterCloseAll(active_connections)
    /\ UNCHANGED <<queueVars, clock, client_count, validator_pc, held>>

\* threading.Timer: the interval elapses and the timer thread starts
\* _validate_connections.
TimerFires ==
    /\ timer_armed
    /\ validator_pc = "idle"
    /\ timer_armed' = FALSE
    /\ validator_pc' = "fired"
    /\ UNCHANGED <<queueVars, clock, sessVars, pool, active_connections, pool_stats, validation_timer, held>>

\* _validate_connections: the pass over the pool, under the lock.
validate_connections ==
    /\ validator_pc = "fired"
    /\ \E o \in [PoolClients(pool) -> ProbeOutcomes] :
         LET r == ValidateScan(pool, client, o, clock)
         IN /\ pool' = r.pool
            /\ client' = r.client
            /\ pool_stats' = pool_stats
    /\ validator_pc' = "restart"
    /\ UNCHANGED <<queueVars, clock, client_count, active_connections, validation_timer, timer_armed, held>>

\* _start_validation_timer, called at the end of the pass.
start_validation_timer ==
    /\ validator_pc = "restart"
    /\ validation_timer' = "set"
    /\ timer_armed' = TRUE
    /\ validator_pc' = "idle"
    /\ UNCHANGED <<queueVars, clock, sessVars, pool, active_connections, pool_stats, held>>

\* A borrower uses a session it holds: the connection may break under it
\* (_send_command / _read_response clear connected), it may log in, or quit.
BorrowerUse(s) ==
    /\ s \in held
    /\ client[s].connected
    /\ \/ client' = [client EXCEPT ![s].connected = FALSE]
       \/ /\ ~client[s].logged_in
          /\ client' = [client EXCEPT ![s].logged_in = TRUE]
       \/ client' = [client EXCEPT ![s] = quit(@)]
    /\ UNCHANGED <<queueVars, clock, client_count, poolVars>>

InitSess ==
    /\ clock = 0
    /\ client = [s \in ClientIds |-> NewClient]
    /\ client_count = 0

\* FTPConnectionPool.__init__
InitPool ==
    /\ pool = <<>>
    /\ active_connections = 0
    /\ pool_stats = [created |-> 0, reused |-> 0, failures |-> 0]
    /\ validation_timer = "set"
    /\ timer_armed = TRUE
    /\ validator_pc = "idle"
    /\ held = {}

\* The borrower goes on after get_connection.
PoolResume ==
    /\ user.pc = "returned"
    /\ user' = Ready
    /\ UNCHANGED <<clock, sessVars, poolVars, queueRest>>

\* What the borrowers, the timer thread and the clock can do.
PoolRunning ==
    \/ Tick
    \/ get_connection_reuse
    \/ get_connection_none
    \/ get_connection_create
    \/ get_connection_fail
    \/ \E s \in ClientIds : release_connection(s)
    \/ close_all
    \/ TimerFires
    \/ validate_connections
    \/ start_validation_timer
    \/ \E s \in ClientIds : BorrowerUse(s)

\* The borrower looks at what get_connection gave it in the state the call
\* returned in.
NextPool ==
    \/ user.pc # "returned" /\ PoolRunning
    \/ PoolResume


(***************************************************************************)
(* TransferTask and the PriorityQueue of TransferQueue                      *)
(* (client/transfer_queue.py).                                              *)
(***************************************************************************)
NoThread == 0 - 1
User == 0
\* start_time / end_time of a task that has none (None).
NoTime == 0 - 1

\* TransferTask as add_task constructs it: status PENDING, created_time now.
NewTask(prio, mr, now) ==
    [status |-> "PENDING", priority |-> prio, created_time |-> now,
     retry_count |-> 0, max_retries |-> mr, error |-> "none",
     progress |-> 0, start_time |-> NoTime, end_time |-> NoTime]

\* A task id not handed out yet.
BlankTask == [status |-> "NONE", priority |-> LOW, created_time |-> 0,
              retry_count |-> 0, max_retries |-> 0, error |-> "none",
              progress |-> 0, start_time |-> NoTime, end_time |-> NoTime]

\* The comparison heapq makes between two queue entries
\* (-task.priority.value, task.created_time, task): the first two components
\* decide; when both are equal Python compares the TransferTask objects, a
\* dataclass without ordering, and raises TypeError.
EntryLess(T, a, b) ==
    IF T[a].priority # T[b].priority
    THEN IF 0 - T[a].priority < 0 - T[b].priority THEN "lt" ELSE "ge"
    ELSE IF T[a].created_time # T[b].created_time
         THEN IF T[a].created_time < T[b].created_time THEN "lt" ELSE "ge"
         ELSE IF a = b THEN "ge" ELSE "err"

\* h with the entries at (0-based) positions i and j exchanged.
Swap(h, i, j) == [h EXCEPT ![i + 1] = h[j + 1], ![j + 1] = h[i + 1]]

\* heapq's siftdown: move the entry at pos up towards startpos while it is
\* less than its parent.  A comparison that raises leaves the list as it is
\* at that moment.
RECURSIVE SiftDown(_, _, _, _)
SiftDown(T, h, startpos, pos) ==
    IF pos <= startpos THEN [h |-> h, err |-> FALSE]
    ELSE LET parentpos == (pos - 1) \div 2
             c == EntryLess(T, h[pos + 1], h[parentpos + 1])
         IN IF c = "err" THEN [h |-> h, err |-> TRUE]
            ELSE IF c = "ge" THEN [h |-> h, err |-> FALSE]
            ELSE SiftDown(T, Swap(h, pos, parentpos), startpos, parentpos)

\* heapq's siftup: move the smaller child up until a leaf is reached, then
\* sift the entry down from there.
RECURSIVE SiftUp(_, _, _)
SiftUp(T, h, pos) ==
    IF pos < Len(h) \div 2
    THEN LET left == 2 * pos + 1
             c == IF left + 1 < Len(h) THEN EntryLess(T, h[left + 1], h[left + 2]) ELSE "lt"
             childpos == IF c = "lt" THEN left ELSE left + 1
         IN IF c = "err" THEN [h |-> h, err |-> TRUE]
            ELSE SiftUp(T, Swap(h, childpos, pos), childpos)
    ELSE SiftDown(T, h, 0, pos)

\* heapq.heappush: append, then siftdown.  On TypeError the entry stays
\* appended.
HeapPush(T, h, x) == SiftDown(T, Append(h, x), 0, Len(h))

\* heapq.heappop: take the last entry off, return the first and put the last
\* in its place, then siftup.  On TypeError the entry that was to be
\* returned is dropped.
HeapPop(T, h) ==
    LET last == h[Len(h)]
        rest == SubSeq(h, 1, Len(h) - 1)
    IN IF rest = <<>> THEN [h |-> <<>>, item |-> last, err |-> FALSE]
       ELSE LET r == SiftUp(T, [rest EXCEPT ![1] = last], 0)
            IN [h |-> r.h, item |-> IF r.err THEN NoTask ELSE rest[1], err |-> r.err]

\* PriorityQueue.task_done: the count after it (ValueError, and no change,
\* when nothing is unfinished).
TaskDone(n) == IF n > 0 THEN n - 1 ELSE n

SeqToSet(q) == {q[i] : i \in 1..Len(q)}
RemoveFromSeq(q, x) == SelectSeq(q, LAMBDA y : y # x)


(***************************************************************************)
(* TransferQueue.add_task and TransferQueue._worker, with the handlers of  *)
(* FTPQueueManager and the FTPClientPool they borrow sessions from         *)
(* (client/transfer_queue.py, client/advanced_client.py).                  *)
(***************************************************************************)
pool_size == NumWorkers

\* A worker waiting in task_queue.get(timeout=0.5).
IdleWorker == [pc |-> "get", task |-> NoTask, client |-> NoClient, result |-> "none"]

\* The caller's call returns r (about task t): the caller has the value in
\* hand until it goes on.
Returned(call, r, t) == [pc |-> "returned", call |-> call, ret |-> r, arg |-> t]

\* add_task(priority=prio, max_retries=mr): the next id, a new TransferTask,
\* put on the queue; tie: time.time() gives created_time the value it gave
\* the task before.  When heappush raises TypeError the entry
\* is in the heap list but put() has not counted it.
enqueue_task(prio, mr, tie) ==
    /\ task_id_counter < MaxOrderTasks
    /\ tie => task_id_counter > 0
    /\ LET t == task_id_counter + 1
           now == IF tie THEN clock ELSE clock + 1
           T == [task EXCEPT ![t] = NewTask(prio, mr, now)]
           r == HeapPush(T, task_queue, t)
       IN /\ task_id_counter' = t
          /\ task' = T
          /\ task_queue' = r.h
          /\ unfinished_tasks' = IF r.err THEN unfinished_tasks ELSE unfinished_tasks + 1
          /\ hist' = [hist EXCEPT !.waiting = @ \cup {t}]
          /\ clock' = now
    /\ UNCHANGED <<sessVars, poolVars, active_tasks, completed_tasks, failed_tasks,
                   shutdown_flag, worker, retry, cpVars>>

\* add_task called by the user of the queue, who gets the task id back.
add_task(prio, mr, tie) ==
    /\ user.pc = "ready"
    /\ enqueue_task(prio, mr, tie)
    /\ UNCHANGED user

\* The test of "while not self.shutdown_flag.is_set()" a worker comes back to.
LoopTest(w, flag) == [w EXCEPT !.pc = IF flag THEN "exited" ELSE "get",
                               !.task = NoTask, !.client = NoClient, !.result = "none"]

\* task_queue.get(timeout=0.5) times out on the empty queue and the worker
\* finds the shutdown flag set.
WorkerExit(w) ==
    /\ worker[w].pc = "get"
    /\ task_queue = <<>>
    /\ shutdown_flag
    /\ worker' = [worker EXCEPT ![w] = LoopTest(@, TRUE)]
    /\ UNCHANGED <<clock, sessVars, poolVars, taskVars, retry, cpVars, user, hist>>

\* task_queue.get returns an entry (or heappop raises TypeError, which the
\* outer except logs), then the test for a cancelled task.
WorkerGet(w) ==
    /\ worker[w].pc = "get"
    /\ task_queue # <<>>
    /\ LET r == HeapPop(task, task_queue)
           t == r.item
       IN /\ task_queue' = r.h
          /\ IF r.err
             THEN /\ worker' = [worker EXCEPT ![w] = LoopTest(@, shutdown_flag)]
                  /\ UNCHANGED <<unfinished_tasks, hist>>
             ELSE IF task[t].status = "CANCELED"
             THEN /\ worker' = [worker EXCEPT ![w] = LoopTest(@, shutdown_flag)]
                  /\ unfinished_tasks' = TaskDone(unfinished_tasks)
                  /\ hist' = [hist EXCEPT !.waiting = @ \ {t}]
             ELSE /\ worker' = [worker EXCEPT ![w].pc = "popped", ![w].task = t]
                  /\ hist' = [hist EXCEPT !.waiting = @ \ {t}]
                  /\ UNCHANGED unfinished_tasks
    /\ UNCHANGED <<clock, sessVars, poolVars, task, task_id_counter, active_tasks,
                   completed_tasks, failed_tasks, shutdown_flag, retry, cpVars, user>>

\* FTPClient._send_command on session c can put bytes on the wire.
CanSend(c) == client[c].cmd_socket /\ client[c].connected

\* The replies _read_response can end with on session c: a reply that is
\* accepted, a 4xx/5xx reply or a timeout (an exception, the session stays
\* connected), end of stream or a socket error (connected is cleared).  On a
\* session another thread has closed only the last is left.
Replies(c) == IF CanSend(c) THEN ProbeOutcomes ELSE {"dropped"}

\* The same for the NOOP of _check_client, which only tells a reply from none.
NoopReplies(c) == IF CanSend(c) THEN {"ok", "dropped"} ELSE {"dropped"}

AfterReply(C, c, o) == IF o = "dropped" /\ C[c].cmd_socket
                       THEN [C EXCEPT ![c].connected = FALSE] ELSE C

\* TransferTask.mark_running at time now: RUNNING and start_time; end_time
\* keeps what an earlier attempt left in it.
mark_running(t, now) == [t EXCEPT !.status = "RUNNING", !.start_time = now]

\* update_progress without the cap at 100.
update_progress_uncapped(t, current, total) ==
    [t EXCEPT !.progress = IF total > 0 THEN (current * 100) \div total ELSE 0]

\* TransferTask.update_progress(current, total, elapsed): the percentage,
\* capped at 100, or 0 when the total is not positive.
update_progress(t, current, total) ==
    [t EXCEPT !.progress = IF total > 0
                           THEN (IF (current * 100) \div total < 100
                                 THEN (current * 100) \div total ELSE 100)
                           ELSE 0]

\* with self._lock: task.mark_running(); self.active_tasks[task.id] = task.
\* Then the handler: FTPClientPool.get_client takes an idle client off
\* self._pool and probes it with NOOP (_check_client); with none, or a dead
\* one, _create_client makes a new session, or returns None and get_client
\* raises ConnectionError whatever made the creation fail (kind).
WorkerStart(w) ==
    /\ worker[w].pc = "popped"
    /\ LET t == worker[w].task
       IN /\ task' = [task EXCEPT ![t] = mark_running(@, clock)]
          /\ active_tasks' = active_tasks \cup {t}
          /\ hist' = [hist EXCEPT !.handled = @ \cup {t}]
    /\ LET got == client_pool # <<>>
           c == IF got THEN Head(client_pool) ELSE NoClient
       IN /\ client_pool' = IF got THEN Tail(client_pool) ELSE client_pool
          /\ \E o \in (IF got THEN NoopReplies(c) ELSE {"none"}) :
               LET C == IF got THEN AfterReply(client, c, o) ELSE client
               IN IF o = "ok"
                  THEN /\ worker' = [worker EXCEPT ![w].pc = "register", ![w].client = c]
                       /\ UNCHANGED <<client, client_count>>
                  ELSE \/ /\ client_count < MaxClients
                          /\ client' = [C EXCEPT ![client_count + 1] = ConnectedClient(TRUE)]
                          /\ client_count' = client_count + 1
                          /\ worker' = [worker EXCEPT ![w].pc = "register",
                                                      ![w].client = client_count + 1]
                       \/ /\ client' = C
                          /\ \E kind \in {"transient", "permanent"} :
                               worker' = [worker EXCEPT ![w].pc = "finish",
                                                           ![w].result = kind]
                          /\ UNCHANGED client_count
    /\ UNCHANGED <<clock, poolVars, task_id_counter, task_queue, unfinished_tasks,
                   completed_tasks, failed_tasks, shutdown_flag, retry, clients_in_use,
                   pool_lock, inflight, user>>

\* get_client: with self._lock: self._clients_in_use[id(client)] = client
RegisterClient(w) ==
    /\ worker[w].pc = "register"
    /\ pool_lock = NoThread
    /\ clients_in_use' = clients_in_use \cup {worker[w].client}
    /\ worker' = [worker EXCEPT ![w].pc = "op"]
    /\ UNCHANGED <<clock, sessVars, poolVars, taskVars, retry, client_pool, pool_lock,
                   inflight, user, hist>>

\* The FTP operation of the handler (client.upload, download, delete, ...):
\* it fails before any command is sent (a missing local file), or its
\* command is sent, or _send_command raises ConnectionError.
OpSend(w) ==
    /\ worker[w].pc = "op"
    /\ LET c == worker[w].client
       IN \/ /\ worker' = [worker EXCEPT ![w].pc = "release", ![w].result = "permanent"]
             /\ UNCHANGED <<client, inflight>>
          \/ /\ CanSend(c)
             /\ inflight' = [inflight EXCEPT ![c] = @ \cup {w}]
             /\ worker' = [worker EXCEPT ![w].pc = "op_recv"]
             /\ UNCHANGED client
          \/ /\ ~CanSend(c)
             /\ worker' = [worker EXCEPT ![w].pc = "release", ![w].result = "transient"]
             /\ UNCHANGED <<client, inflight>>
    /\ UNCHANGED <<clock, client_count, poolVars, taskVars, retry, client_pool,
                   clients_in_use, pool_lock, user, hist>>

\* The reply to the operation's command: success, a 5xx reply (CommandError,
\* a permanent error), or a broken connection (a transient one).
OpRecv(w) ==
    /\ worker[w].pc = "op_recv"
    /\ LET c == worker[w].client
       IN /\ inflight' = [inflight EXCEPT ![c] = @ \ {w}]
          /\ \E o \in Replies(c) :
               /\ client' = AfterReply(client, c, o)
               /\ worker' = [worker EXCEPT ![w].pc = "release",
                                           ![w].result = IF o = "ok" THEN "ok"
                                                         ELSE IF o = "refused" THEN "permanent"
                                                         ELSE "transient"]
    /\ UNCHANGED <<clock, client_count, poolVars, taskVars, retry, client_pool,
                   clients_in_use, pool_lock, user, hist>>

\* The progress_callback of _handle_upload / _handle_download, called by the
\* transfer loop of client.upload / client.download after a chunk:
\* task.update_progress(transferred, total, elapsed).
ReportProgress(w) ==
    /\ worker[w].pc = "op_recv"
    /\ \E current \in 0..MaxBytes, total \in 0..MaxBytes :
         task' = [task EXCEPT ![worker[w].task] = update_progress(@, current, total)]
    /\ UNCHANGED <<clock, sessVars, poolVars, task_id_counter, task_queue, unfinished_tasks,
                   active_tasks, completed_tasks, failed_tasks, shutdown_flag, worker, retry,
                   cpVars, user, hist>>

\* release_client left out: the handler returns with the session still its
\* own and still registered.
SkipRelease(w) ==
    /\ worker[w].pc = "release"
    /\ worker' = [worker EXCEPT ![w].pc = "finish"]
    /\ UNCHANGED <<clock, sessVars, poolVars, taskVars, retry, cpVars, user, hist>>

\* finally: release_client(client).  Under self._lock: a registered client is
\* taken out of _clients_in_use and probed with NOOP, the lock still held;
\* one that is not registered, or whose NOOP cannot be sent, is quit.
ReleaseClient(w) ==
    /\ worker[w].pc = "release"
    /\ pool_lock = NoThread
    /\ LET c == worker[w].client
       IN IF c \in clients_in_use /\ CanSend(c)
          THEN /\ clients_in_use' = clients_in_use \ {c}
               /\ inflight' = [inflight EXCEPT ![c] = @ \cup {w}]
               /\ pool_lock' = w
               /\ worker' = [worker EXCEPT ![w].pc = "release_recv"]
               /\ UNCHANGED client
          ELSE /\ clients_in_use' = clients_in_use \ {c}
               /\ client' = [client EXCEPT ![c] = quit(@)]
               /\ worker' = [worker EXCEPT ![w].pc = "finish", ![w].client = NoClient]
               /\ UNCHANGED <<inflight, pool_lock>>
    /\ UNCHANGED <<clock, client_count, poolVars, taskVars, retry, client_pool, user, hist>>

\* release_client: the reply to NOOP; a live client goes back on self._pool
\* (put(block=False)), a dead one, or one the full pool refuses, is quit.
ReleaseRecv(w) ==
    /\ worker[w].pc = "release_recv"
    /\ LET c == worker[w].client
       IN /\ inflight' = [inflight EXCEPT ![c] = @ \ {w}]
          /\ pool_lock' = NoThread
          /\ \E o \in NoopReplies(c) :
               IF o = "ok" /\ Len(client_pool) < pool_size
               THEN /\ client_pool' = Append(client_pool, c)
                    /\ UNCHANGED client
               ELSE /\ client' = [AfterReply(client, c, o) EXCEPT ![c] = quit(@)]
                    /\ UNCHANGED client_pool
    /\ worker' = [worker EXCEPT ![w].pc = "finish", ![w].client = NoClient]
    /\ UNCHANGED <<clock, client_count, poolVars, taskVars, retry, clients_in_use, user, hist>>

\* TransferTask.mark_completed at time now: COMPLETED, end_time, progress
\* 100, and on_complete is called.
mark_completed(t, now) ==
    [t EXCEPT !.status = "COMPLETED", !.end_time = now, !.progress = 100]

\* TransferTask.mark_failed(e) at time now: FAILED with the error, end_time,
\* and on_error is called.
mark_failed(t, e, now) == [t EXCEPT !.status = "FAILED", !.end_time = now, !.error = e]

\* Back in _worker: mark_completed and completed_tasks, or mark_failed and
\* failed_tasks, under self._lock; then task_done() and the loop test.
WorkerFinish(w) ==
    /\ worker[w].pc = "finish"
    /\ LET t == worker[w].task
       IN /\ IF worker[w].result = "ok"
             THEN /\ task' = [task EXCEPT ![t] = mark_completed(@, clock)]
                  /\ completed_tasks' = completed_tasks \cup {t}
                  /\ hist' = [hist EXCEPT !.complete_calls[t] = @ + 1]
                  /\ UNCHANGED failed_tasks
             ELSE /\ task' = [task EXCEPT ![t] = mark_failed(@, worker[w].result, clock)]
                  /\ failed_tasks' = IF t \in SeqToSet(failed_tasks) THEN failed_tasks
                                     ELSE Append(failed_tasks, t)
                  /\ hist' = [hist EXCEPT !.error_calls[t] = @ + 1]
                  /\ UNCHANGED completed_tasks
          /\ active_tasks' = active_tasks \ {t}
    /\ unfinished_tasks' = TaskDone(unfinished_tasks)
    /\ worker' = [worker EXCEPT ![w] = LoopTest(@, shutdown_flag)]
    /\ UNCHANGED <<clock, sessVars, poolVars, task_id_counter, task_queue, shutdown_flag,
                   retry, cpVars, user>>

\* A worker's steps on a task.
Handle(w) ==
    \/ WorkerGet(w)
    \/ WorkerStart(w)
    \/ RegisterClient(w)
    \/ OpSend(w)
    \/ OpRecv(w)
    \/ ReleaseClient(w)
    \/ ReleaseRecv(w)
    \/ WorkerFinish(w)

Worker(w) == WorkerExit(w) \/ Handle(w)

(***************************************************************************)
(* TransferQueue._retry_worker.                                            *)
(***************************************************************************)
\* can_retry letting a task with retry_count = max_retries through.
can_retry_inclusive(t) == t.status = "FAILED" /\ t.retry_count <= t.max_retries

\* TransferTask.can_retry
can_retry(t) == t.status = "FAILED" /\ t.retry_count < t.max_retries

\* TransferTask.mark_retrying
mark_retrying(t) == [t EXCEPT !.status = "RETRYING", !.retry_count = @ + 1]

\* TransferTask.retry_delay, in seconds: add_task gives every task the default.
retry_delay == 5

\* time.sleep(task.retry_delay) of the retry thread before it puts task t
\* back: the length of the sleep.
SleepBeforePut(t) == retry_delay

RECURSIVE RetryScanList(_, _)
\* The failed tasks that can_retry, in the order of failed_tasks.
RetryScanList(T, f) ==
    IF f = <<>> THEN <<>>
    ELSE IF can_retry(T[Head(f)]) THEN <<Head(f)>> \o RetryScanList(T, Tail(f))
    ELSE RetryScanList(T, Tail(f))

RECURSIVE RemoveAll(_, _)
RemoveAll(f, S) ==
    IF f = <<>> THEN <<>>
    ELSE IF Head(f) \in S THEN RemoveAll(Tail(f), S)
    ELSE <<Head(f)>> \o RemoveAll(Tail(f), S)

\* The retry thread after its loop body: the loop test, then time.sleep(5).
RetryLoopTest(flag) ==
    [pc |-> IF flag THEN "exited" ELSE "sleeping", tasks |-> <<>>, delay |-> 0]

\* After time.sleep(5): under self._lock the tasks that can_retry are taken
\* out of failed_tasks; the first is mark_retrying'ed and the thread sleeps
\* its retry_delay.  With none to retry the loop test follows.
RetryScan ==
    /\ retry.pc = "sleeping"
    /\ LET rt == RetryScanList(task, failed_tasks)
       IN IF rt = <<>>
          THEN /\ shutdown_flag
               /\ retry' = RetryLoopTest(TRUE)
               /\ UNCHANGED <<task, failed_tasks>>
          ELSE /\ failed_tasks' = RemoveAll(failed_tasks, SeqToSet(rt))
               /\ task' = [task EXCEPT ![Head(rt)] = mark_retrying(@)]
               /\ retry' = [pc |-> "delay", tasks |-> rt,
                             delay |-> SleepBeforePut(task[Head(rt)])]
    /\ UNCHANGED <<clock, sessVars, poolVars, task_id_counter, task_queue, unfinished_tasks,
                   active_tasks, completed_tasks, shutdown_flag, worker, cpVars, user, hist>>

\* After time.sleep(task.retry_delay): the task is put back on the queue;
\* the next of retry_tasks is mark_retrying'ed, or the loop test follows.
\* A TypeError out of heappush leaves the for loop: the outer except logs it.
RetryPut ==
    /\ retry.pc = "delay"
    /\ LET t == Head(retry.tasks)
           rest == Tail(retry.tasks)
           r == HeapPush(task, task_queue, t)
       IN /\ task_queue' = r.h
          /\ unfinished_tasks' = IF r.err THEN unfinished_tasks ELSE unfinished_tasks + 1
          /\ hist' = [hist EXCEPT !.waiting = @ \cup {t}]
          /\ IF r.err \/ rest = <<>>
             THEN /\ retry' = RetryLoopTest(shutdown_flag)
                  /\ UNCHANGED task
             ELSE /\ retry' = [retry EXCEPT !.tasks = rest,
                                             !.delay = SleepBeforePut(task[Head(rest)])]
                  /\ task' = [task EXCEPT ![Head(rest)] = mark_retrying(@)]
    /\ UNCHANGED <<clock, sessVars, poolVars, task_id_counter, active_tasks, completed_tasks,
                   failed_tasks, shutdown_flag, worker, cpVars, user>>

(***************************************************************************)
(* What the caller does: cancel_task, wait_for_task, wait_all, shutdown    *)
(* and AdvancedFTPClient.disconnect (FTPClientPool.close_all, then         *)
(* shutdown(wait=True)).                                                    *)
(***************************************************************************)
\* TransferTask.mark_canceled at time now (no callback is called)
mark_canceled(t, now) == [t EXCEPT !.status = "CANCELED", !.end_time = now]

\* get_task_status: the task object, looked up in active_tasks,
\* completed_tasks and failed_tasks; "None" when it is in none of them.
get_task_status(t) ==
    IF t \in active_tasks \/ t \in completed_tasks \/ t \in SeqToSet(failed_tasks)
    THEN task[t].status ELSE "None"

\* cancel_task(t)
cancel_task(t) ==
    /\ user.pc = "ready"
    /\ t \in 1..task_id_counter
    /\ IF t \in active_tasks
       THEN /\ user' = Returned("cancel_task", "false", t)
            /\ UNCHANGED <<task, failed_tasks, completed_tasks, hist>>
       ELSE IF t \in SeqToSet(failed_tasks)
       THEN /\ failed_tasks' = RemoveFromSeq(failed_tasks, t)
            /\ task' = [task EXCEPT ![t] = mark_canceled(@, clock)]
            /\ completed_tasks' = completed_tasks \cup {t}
            /\ user' = Returned("cancel_task", "true", t)
            /\ UNCHANGED hist
       ELSE IF t \in completed_tasks
       THEN /\ user' = Returned("cancel_task", "false", t)
            /\ UNCHANGED <<task, failed_tasks, completed_tasks, hist>>
       ELSE /\ user' = Returned("cancel_task", "true", t)
            /\ hist' = IF task[t].status = "PENDING"
                       THEN [hist EXCEPT !.cancelled = @ \cup {t}] ELSE hist
            /\ UNCHANGED <<task, failed_tasks, completed_tasks>>
    /\ UNCHANGED <<clock, sessVars, poolVars, task_id_counter, task_queue, unfinished_tasks,
                   active_tasks, shutdown_flag, worker, retry, cpVars>>

\* wait_for_task(t, timeout): the poll that ends the wait.  A RUNNING task
\* keeps it polling until the timeout, when there is one.
wait_for_task(t) ==
    /\ user.pc = "ready"
    /\ t \in 1..task_id_counter
    /\ LET s == get_task_status(t)
       IN user' = Returned("wait_for_task",
                           IF s = "None" THEN "false"
                           ELSE IF s = "COMPLETED" THEN "true"
                           ELSE IF s \in {"FAILED", "CANCELED"} THEN "false"
                           ELSE "timeout", t)
    /\ UNCHANGED <<clock, sessVars, poolVars, taskVars, worker, retry, cpVars, hist>>

\* wait_all: get_all_tasks reads active_tasks under the lock.
WaitAllActive ==
    /\ user.pc = "ready"
    /\ active_tasks = {}
    /\ user' = [Ready EXCEPT !.pc = "get_all_tasks", !.call = "wait_all"]
    /\ UNCHANGED <<clock, sessVars, poolVars, taskVars, worker, retry, cpVars, hist>>

\* wait_all: get_all_tasks then reads task_queue.qsize(); with nothing active
\* and nothing queued wait_all returns True, otherwise it goes on polling
\* (or times out).
WaitAllQueued ==
    /\ user.pc = "get_all_tasks"
    /\ user' = Returned("wait_all", IF Len(task_queue) = 0 THEN "true" ELSE "timeout", NoTask)
    /\ UNCHANGED <<clock, sessVars, poolVars, taskVars, worker, retry, cpVars, hist>>

\* The caller goes on to its next call.
Resume ==
    /\ user.pc = "returned"
    /\ user' = Ready
    /\ UNCHANGED <<clock, sessVars, poolVars, taskVars, worker, retry, cpVars, hist>>

\* shutdown(wait): with wait the caller blocks in task_queue.join();
\* without it the flag is set at once.
shutdown(wait) ==
    /\ user.pc = "ready"
    /\ ~shutdown_flag
    /\ user' = [Ready EXCEPT !.pc = IF wait THEN "join" ELSE "join_threads",
                             !.call = IF wait THEN "shutdown_wait" ELSE "shutdown"]
    /\ shutdown_flag' = ~wait
    /\ UNCHANGED <<clock, sessVars, poolVars, task, task_id_counter, task_queue,
                   unfinished_tasks, active_tasks, completed_tasks, failed_tasks, worker,
                   retry, cpVars, hist>>

\* task_queue.join() returns (unfinished_tasks is 0); self.shutdown_flag.set()
ShutdownJoined ==
    /\ user.pc = "join"
    /\ unfinished_tasks = 0
    /\ shutdown_flag' = TRUE
    /\ user' = [user EXCEPT !.pc = "join_threads"]
    /\ UNCHANGED <<clock, sessVars, poolVars, task, task_id_counter, task_queue,
                   unfinished_tasks, active_tasks, completed_tasks, failed_tasks, worker,
                   retry, cpVars, hist>>

\* thread.join(timeout=1.0) on every worker and on the retry thread: each
\* returns when its thread has exited or after a second; shutdown returns.
\* After disconnect the facade takes no more calls.
ShutdownReturn ==
    /\ user.pc = "join_threads"
    /\ user' = IF user.call = "disconnect" THEN [Ready EXCEPT !.pc = "disconnected"]
               ELSE Returned(user.call, "none", NoTask)
    /\ UNCHANGED <<clock, sessVars, poolVars, taskVars, worker, retry, cpVars, hist>>

\* disconnect: client_pool.close_all() takes self._lock to quit the clients
\* in use.
disconnect ==
    /\ user.pc = "ready"
    /\ ~shutdown_flag
    /\ pool_lock = NoThread
    /\ pool_lock' = User
    /\ user' = [Ready EXCEPT !.pc = "close_in_use", !.call = "disconnect"]
    /\ UNCHANGED <<clock, sessVars, poolVars, taskVars, worker, retry, client_pool,
                   clients_in_use, inflight, hist>>

\* close_all: client.quit() on a client in use: nothing when it is not
\* connected, otherwise QUIT is sent (or the send fails and it is closed).
CloseAllQuit(c) ==
    /\ user.pc = "close_in_use"
    /\ c \in clients_in_use
    /\ IF CanSend(c)
       THEN /\ inflight' = [inflight EXCEPT ![c] = @ \cup {User}]
            /\ user' = [user EXCEPT !.pc = "close_recv", !.arg = c]
            /\ UNCHANGED <<client, clients_in_use>>
       ELSE /\ client' = [client EXCEPT ![c] = quit(@)]
            /\ clients_in_use' = clients_in_use \ {c}
            /\ UNCHANGED <<inflight, user>>
    /\ UNCHANGED <<clock, client_count, poolVars, taskVars, worker, retry, client_pool,
                   pool_lock, hist>>

\* close_all: quit() reads the reply to QUIT and closes the session.
CloseAllQuitRecv ==
    /\ user.pc = "close_recv"
    /\ LET c == user.arg
       IN /\ inflight' = [inflight EXCEPT ![c] = @ \ {User}]
          /\ client' = [client EXCEPT ![c] = close_connection(@)]
          /\ clients_in_use' = clients_in_use \ {c}
    /\ user' = [user EXCEPT !.pc = "close_in_use", !.arg = NoTask]
    /\ UNCHANGED <<clock, client_count, poolVars, taskVars, worker, retry, client_pool,
                   pool_lock, hist>>

RECURSIVE QuitIdle(_, _)
\* The while loop of FTPClientPool.close_all: quit every client of self._pool.
QuitIdle(q, C) ==
    IF q = <<>> THEN C
    ELSE QuitIdle(Tail(q), [C EXCEPT ![Head(q)] = quit(@)])

\* close_all: _clients_in_use.clear(), the lock is released, and the idle
\* clients are taken off self._pool and quit.  disconnect goes on to
\* queue_manager.shutdown(wait=True).
CloseAllIdle ==
    /\ user.pc = "close_in_use"
    /\ clients_in_use = {}
    /\ pool_lock' = NoThread
    /\ client' = QuitIdle(client_pool, client)
    /\ client_pool' = <<>>
    /\ user' = [user EXCEPT !.pc = "join"]
    /\ UNCHANGED <<clock, client_count, poolVars, taskVars, worker, retry, clients_in_use,
                   inflight, hist>>

\* The state the queue variables have while only the FTPConnectionPool runs.
InitQueueOff ==
    /\ task = [t \in TaskIds |-> BlankTask]
    /\ task_id_counter = 0
    /\ task_queue = <<>>
    /\ unfinished_tasks = 0
    /\ active_tasks = {}
    /\ completed_tasks = {}
    /\ failed_tasks = <<>>
    /\ shutdown_flag = FALSE
    /\ worker = [w \in Workers |-> IdleWorker]
    /\ retry = RetryLoopTest(FALSE)
    /\ client_pool = <<>>
    /\ clients_in_use = {}
    /\ pool_lock = NoThread
    /\ inflight = [c \in ClientIds |-> {}]
    /\ user = Ready
    /\ hist = [waiting |-> {}, handled |-> {}, cancelled |-> {},
               complete_calls |-> [t \in TaskIds |-> 0],
               error_calls |-> [t \in TaskIds |-> 0]]

\* AdvancedFTPClient.connect: FTPClientPool.__init__ creates pool_size
\* clients, FTPQueueManager starts the workers and the retry thread.
InitQueue ==
    /\ task = [t \in TaskIds |-> BlankTask]
    /\ task_id_counter = 0
    /\ task_queue = <<>>
    /\ unfinished_tasks = 0
    /\ active_tasks = {}
    /\ completed_tasks = {}
    /\ failed_tasks = <<>>
    /\ shutdown_flag = FALSE
    /\ worker = [w \in Workers |-> IdleWorker]
    /\ retry = RetryLoopTest(FALSE)
    /\ clock = 0
    /\ client_count = pool_size
    /\ client = [c \in ClientIds |-> IF c <= client_count THEN ConnectedClient(TRUE)
                                     ELSE NewClient]
    /\ client_pool = [i \in 1..client_count |-> i]
    /\ clients_in_use = {}
    /\ pool_lock = NoThread
    /\ inflight = [c \in ClientIds |-> {}]
    /\ user = Ready
    /\ hist = [waiting |-> {}, handled |-> {}, cancelled |-> {},
               complete_calls |-> [t \in TaskIds |-> 0],
               error_calls |-> [t \in TaskIds |-> 0]]

\* What the threads can do while the caller is in no call or inside one.
\* The caller submits every task with the default priority.
Running ==
    \/ /\ task_id_counter < MaxTasks
       /\ \E tie \in BOOLEAN : add_task(NORMAL, MaxRetries, tie)
    \/ \E w \in Workers : Worker(w)
    \/ RetryScan
    \/ RetryPut
    \/ \E t \in TaskIds : cancel_task(t)
    \/ \E t \in TaskIds : wait_for_task(t)
    \/ WaitAllActive
    \/ WaitAllQueued
    \/ \E wait \in BOOLEAN : shutdown(wait)
    \/ ShutdownJoined
    \/ ShutdownReturn
    \/ disconnect
    \/ \E c \in ClientIds : CloseAllQuit(c)
    \/ CloseAllQuitRecv
    \/ CloseAllIdle

\* A return value is looked at in the state the call returned in.
Next ==
    \/ user.pc # "returned" /\ Running
    \/ Resume

\* The facade connected, no FTPConnectionPool in use.
Init == InitQueue /\ InitPool

Spec == Init /\ [][Next]_vars

\* The caller only submits tasks: the workers and the retry thread run them.
NextOrder ==
    \/ \E prio \in PriorityChoices, tie \in BOOLEAN : add_task(prio, MaxRetries, tie)
    \/ \E w \in Workers : Handle(w)
    \/ RetryScan
    \/ RetryPut

SpecOrder == Init /\ [][NextOrder]_vars

\* The life of a task, step by step: time passes between the steps, a
\* transfer reports its progress, the task is submitted with any max_retries,
\* and the caller cancels.
Living ==
    \/ Tick
    \/ /\ task_id_counter < MaxLifeTasks
       /\ \E prio \in PriorityChoices, mr \in 0..MaxLifeRetries : add_task(prio, mr, FALSE)
    \/ \E w \in Workers : Handle(w)
    \/ \E w \in Workers : ReportProgress(w)
    \/ RetryScan
    \/ RetryPut
    \/ \E t \in TaskIds : cancel_task(t)

NextLife ==
    \/ user.pc # "returned" /\ Living
    \/ Resume

SpecLife == Init /\ [][NextLife]_vars


\* The end of a task in _worker when a callback of the user raises.
\* on_complete raising inside mark_completed leaves the "with self._lock"
\* block before completed_tasks is written and lands in "except Exception",
\* which calls mark_failed(e) and so on_error.  on_error raising inside
\* mark_failed leaves the except block before failed_tasks is written and
\* before active_tasks.pop: only the finally (task_done) and the outer
\* except, which logs, follow.
WorkerFinishRaising(w) ==
    /\ worker[w].pc = "finish"
    /\ LET t == worker[w].task
           ok == worker[w].result = "ok"
           e == IF ok THEN "callback" ELSE worker[w].result
           T == IF ok THEN [task EXCEPT ![t] = mark_completed(@, clock)] ELSE task
       IN /\ task' = [T EXCEPT ![t] = mark_failed(@, e, clock)]
          /\ hist' = [hist EXCEPT !.complete_calls[t] = IF ok THEN @ + 1 ELSE @,
                                  !.error_calls[t] = @ + 1]
          /\ \/ /\ ok
                /\ failed_tasks' = IF t \in SeqToSet(failed_tasks) THEN failed_tasks
                                   ELSE Append(failed_tasks, t)
                /\ active_tasks' = active_tasks \ {t}
             \/ UNCHANGED <<failed_tasks, active_tasks>>
    /\ unfinished_tasks' = TaskDone(unfinished_tasks)
    /\ worker' = [worker EXCEPT ![w] = LoopTest(@, shutdown_flag)]
    /\ UNCHANGED <<clock, sessVars, poolVars, task_id_counter, task_queue, completed_tasks,
                   shutdown_flag, retry, cpVars, user>>

LivingRaising ==
    \/ Living
    \/ \E w \in Workers : WorkerFinishRaising(w)

NextCallback ==
    \/ user.pc # "returned" /\ LivingRaising
    \/ Resume

SpecCallback == Init /\ [][NextCallback]_vars

\* The queue left to run: tasks of one priority are submitted, nobody cancels
\* or shuts down.  Each worker and the retry monitor is a thread of its own
\* (threading.Thread, started in __init__) that the interpreter keeps
\* scheduling: a step of theirs that stays possible is eventually taken.
NextFair ==
    \/ \E mr \in 0..MaxRetries, tie \in BOOLEAN : add_task(NORMAL, mr, tie)
    \/ \E w \in Workers : Handle(w)
    \/ RetryScan
    \/ RetryPut

SpecFair ==
    /\ Init
    /\ [][NextFair]_vars
    /\ \A w \in Workers : WF_vars(Handle(w))
    /\ WF_vars(RetryScan)
    /\ WF_vars(RetryPut)


(***************************************************************************)
(* AdvancedFTPClient.download_directory on the caller's thread, with the   *)
(* workers and the retry thread running.  The remote tree is a chain of    *)
(* directories, tree[l] telling whether the directory at level l holds a   *)
(* file; every directory but the last lists its file first and then one    *)
(* subdirectory.                                                           *)
(***************************************************************************)
MaxDepth == 2

\* The trees whose traversal needs no more task ids than there are.
Trees ==
    { tr \in UNION {[1..d -> BOOLEAN] : d \in 1..MaxDepth} :
        Len(tr) + Cardinality({l \in 1..Len(tr) : tr[l]}) <= MaxOrderTasks }

\* The caller inside download_directory for the directory at level l:
\* lists[l] is the id of its LIST task, files[l] that of its DOWNLOAD task.
DirCall(tr) ==
    [pc |-> "dir_list", call |-> "download_directory", ret |-> "none", arg |-> NoTask,
     tree |-> tr, level |-> 1, lists |-> <<>>, files |-> [l \in 1..Len(tr) |-> NoTask]]

\* download_directory(remote_dir, local_dir) is called.
DirStart(tr) ==
    /\ user.pc = "ready"
    /\ task_id_counter = 0
    /\ user' = DirCall(tr)
    /\ UNCHANGED <<clock, sessVars, poolVars, queueRest>>

\* list_task_id = self.list_directory(remote_dir, priority=HIGH)
DirList ==
    /\ user.pc = "dir_list"
    /\ enqueue_task(HIGH, MaxRetries, FALSE)
    /\ user' = [user EXCEPT !.pc = "dir_wait", !.arg = task_id_counter + 1,
                            !.lists = Append(@, task_id_counter + 1)]

\* download_directory returns its task ids, to the caller or to the
\* download_directory of the parent, which has no entry left and returns too.
DirReturn(u) == [u EXCEPT !.pc = "dir_done", !.arg = NoTask]

\* wait_for_task(list_task_id, timeout=30): the poll that ends the wait, or
\* the timeout while the task is RUNNING.  On True the listing is read from
\* the task; on False on_error is told and the call returns.
DirPoll ==
    /\ user.pc = "dir_wait"
    /\ LET st == get_task_status(user.arg)
       IN user' = IF st = "COMPLETED"
                  THEN IF user.tree[user.level] THEN [user EXCEPT !.pc = "dir_file"]
                       ELSE IF user.level < Len(user.tree)
                       THEN [user EXCEPT !.pc = "dir_list", !.level = @ + 1]
                       ELSE DirReturn(user)
                  ELSE DirReturn(user)
    /\ UNCHANGED <<clock, sessVars, poolVars, queueRest>>

\* The file entry: task_id = self.download(remote_path, local_path, ...);
\* then the subdirectory entry, when there is one.
DirFile ==
    /\ user.pc = "dir_file"
    /\ enqueue_task(NORMAL, MaxRetries, FALSE)
    /\ LET u == [user EXCEPT !.files[user.level] = task_id_counter + 1]
       IN user' = IF user.level < Len(user.tree)
                  THEN [u EXCEPT !.pc = "dir_list", !.level = @ + 1]
                  ELSE DirReturn(u)

NextDir ==
    \/ \E tr \in Trees : DirStart(tr)
    \/ DirList
    \/ DirPoll
    \/ DirFile
    \/ \E w \in Workers : Handle(w)
    \/ RetryScan
    \/ RetryPut

SpecDir == Init /\ [][NextDir]_vars

(***************************************************************************)
(* FTPClient.login(username, password, retry) on a connected session: the  *)
(* inner _login_operation under _execute_with_retry.                        *)
(***************************************************************************)
\* What _read_response can end with after USER or PASS: the replies 331, 230
\* and 530, another reply below 500, a read timeout, end of stream.
LoginReplies == {"331", "230", "530", "other", "timeout", "closed"}

\* The outcomes _execute_with_retry catches as (socket.timeout,
\* ConnectionError, TimeoutError) and retries; CommandError (a 5xx line) and
\* AuthenticationError fall to "except Exception" and are raised at once.
RetryableAlso530(reply) == reply \in {"timeout", "closed", "530"}

Retryable(reply) == reply \in {"timeout", "closed"}

\* The caller inside login(..., retry=retry_count) on session s.
LoginCall(s, retry_count, was_logged_in) ==
    [pc |-> "login_op", call |-> "login", ret |-> "none", arg |-> s,
     retries |-> 0, max_retries |-> retry_count, user_sent |-> 0, pass_sent |-> 0,
     reply |-> "none", before |-> was_logged_in]

\* login raising AuthenticationError, or returning True.
LoginReturn(u, r) == [u EXCEPT !.pc = "returned", !.ret = r]

\* _execute_with_retry after a retryable exception: retries += 1, then the
\* reconnection and another attempt, or the last exception is raised, which
\* login wraps in AuthenticationError.
AfterTransportFailure(u) ==
    IF u.retries + 1 <= u.max_retries
    THEN [u EXCEPT !.retries = @ + 1, !.pc = "reconnect"]
    ELSE LoginReturn([u EXCEPT !.retries = @ + 1], "AuthenticationError")

\* login(username, password, retry=retry_count) is called on the session.
LoginStart(retry_count) ==
    /\ user.pc = "ready"
    /\ user' = LoginCall(client_count, retry_count, client[client_count].logged_in)
    /\ UNCHANGED <<clock, sessVars, poolVars, queueRest>>

\* _login_operation: the cmd_socket test and _send_command("USER ...").
LoginSendUser ==
    /\ user.pc = "login_op"
    /\ LET s == user.arg
       IN IF ~CanSendOn(client[s])
          THEN /\ user' = AfterTransportFailure(user)
               /\ UNCHANGED client
          ELSE \/ /\ user' = [user EXCEPT !.pc = "user_recv", !.user_sent = @ + 1]
                  /\ UNCHANGED client
               \/ /\ client' = [client EXCEPT ![s].connected = FALSE]
                  /\ user' = AfterTransportFailure(user)
    /\ UNCHANGED <<clock, client_count, poolVars, queueRest>>

\* The session after _read_response ended with reply.
AfterLoginReply(c, reply) ==
    IF reply = "closed" THEN [c EXCEPT !.connected = FALSE]
    ELSE IF reply = "230" THEN [c EXCEPT !.logged_in = TRUE]
    ELSE c

\* The caller after the reply to USER (next = "pass_send") or to PASS
\* (next = "none"): 230 logs in; 331 after USER leads to PASS; a retryable
\* failure goes to _execute_with_retry; everything else raises.
LoginAfterReply(u, reply, next) ==
    LET v == [u EXCEPT !.reply = reply]
    IN IF reply = "230" THEN LoginReturn(v, "True")
       ELSE IF reply = "331" /\ next # "none" THEN [v EXCEPT !.pc = next]
       ELSE IF Retryable(reply) THEN AfterTransportFailure(v)
       ELSE LoginReturn(v, "AuthenticationError")

\* _read_response after USER.
LoginUserReply ==
    /\ user.pc = "user_recv"
    /\ \E reply \in LoginReplies :
         /\ client' = [client EXCEPT ![user.arg] = AfterLoginReply(@, reply)]
         /\ user' = LoginAfterReply(user, reply, "pass_send")
    /\ UNCHANGED <<clock, client_count, poolVars, queueRest>>

\* _send_command("PASS ...")
LoginSendPass ==
    /\ user.pc = "pass_send"
    /\ LET s == user.arg
       IN \/ /\ user' = [user EXCEPT !.pc = "pass_recv", !.pass_sent = @ + 1]
             /\ UNCHANGED client
          \/ /\ client' = [client EXCEPT ![s].connected = FALSE]
             /\ user' = AfterTransportFailure(user)
    /\ UNCHANGED <<clock, client_count, poolVars, queueRest>>

\* _read_response after PASS.
LoginPassReply ==
    /\ user.pc = "pass_recv"
    /\ \E reply \in LoginReplies :
         /\ client' = [client EXCEPT ![user.arg] = AfterLoginReply(@, reply)]
         /\ user' = LoginAfterReply(user, reply, "none")
    /\ UNCHANGED <<clock, client_count, poolVars, queueRest>>

\* _execute_with_retry before the next attempt: _close_connection(), then
\* connect(), whose exception is only logged.
LoginReconnect ==
    /\ user.pc = "reconnect"
    /\ \/ client' = [client EXCEPT ![user.arg] = ConnectedClient(FALSE)]
       \/ client' = [client EXCEPT ![user.arg] = close_connection(@)]
       \/ client' = [client EXCEPT ![user.arg] = [close_connection(@) EXCEPT !.cmd_socket = TRUE]]
    /\ user' = [user EXCEPT !.pc = "login_op"]
    /\ UNCHANGED <<clock, client_count, poolVars, queueRest>>

\* One FTPClient that connect() has connected, nobody logged in.
InitLogin ==
    /\ clock = 0
    /\ client_count = 1
    /\ client = [s \in ClientIds |-> IF s = client_count THEN ConnectedClient(FALSE)
                                     ELSE NewClient]
    /\ InitPool
    /\ InitQueueOff

NextLogin ==
    \/ \E retry_count \in 0..MaxLoginRetries : LoginStart(retry_count)
    \/ LoginSendUser
    \/ LoginUserReply
    \/ LoginSendPass
    \/ LoginPassReply
    \/ LoginReconnect
    \/ PoolResume

SpecLogin == InitLogin /\ [][NextLogin]_vars

\* A FTPConnectionPool just constructed, no queue in use.
InitPoolOnly == InitSess /\ InitPool /\ InitQueueOff

SpecPool == InitPoolOnly /\ [][NextPool]_vars


(***************************************************************************)
(* FTPClient.download, FTPClient.upload and FTPClient.quit on one session. *)
(* The frame of the call is kept in user: the arguments, the local         *)
(* variables local_size, remote_size, data_sock and bytes, the commands    *)
(* sent so far, the local file, and what the call returns or raises.       *)
(***************************************************************************)
MaxFile == 2

\* os.path.exists is false / the server has no such file.
NoFile == 0 - 1
FileSizes == 0..MaxFile

\* What the server and the network make of SIZE: "213 n", a reply that
\* size() turns into CommandError (not 2xx, or no number in it), or a
\* transport failure (ConnectionError, TimeoutError), which no caller catches.
SizeReplies(remote) == IF remote = NoFile THEN {"error", "transport"}
                       ELSE {"ok", "error", "transport"}

\* What comes back for REST, RETR/STOR/APPE and at the end of the transfer.
TransferReplies == {"ok", "bad", "transport"}

SkipNever(have, want) == FALSE

\* "if local_size >= remote_size" of download, "if remote_size >= local_size"
\* of upload: what is already there covers what is wanted.
SkipTransfer(have, want) == have >= want

\* download(remote_path, local_path, resume=resume) or upload(local_path,
\* remote_path, resume=resume) is entered with a session that is logged in:
\* the transfer mode is set, upload has taken os.path.getsize(local_path).
TransferCall(op, resume, local, remote, active) ==
    [pc |-> IF op = "download" \/ resume THEN "size" ELSE "create_data",
     call |-> op, ret |-> "none", arg |-> client_count,
     resume |-> resume, active |-> active, local |-> local, remote |-> remote,
     file |-> local, local_size |-> IF op = "upload" THEN local ELSE 0,
     remote_size |-> 0, size_reply |-> "none", port_reply |-> "none", sent |-> <<>>,
     data_sock |-> "none", listener |-> "none", conn |-> "none",
     bytes |-> 0, total |-> NoFile, size |-> NoFile, elapsed |-> "none"]

\* The call returns (True, size, elapsed) or raises e.
TransferReturn(u, e, size, elapsed) ==
    [u EXCEPT !.pc = "returned", !.ret = e, !.size = size, !.elapsed = elapsed]

KeepSocket(state) == state

\* socket.close()
CloseSocket(state) == "closed"

\* The "except Exception" block around the transfer: data_sock.close() on
\* whatever data_sock names at that moment, then FileTransferError.
RaiseInTry(u) ==
    LET v == IF u.data_sock = "listener" THEN [u EXCEPT !.listener = CloseSocket(@)]
             ELSE [u EXCEPT !.conn = CloseSocket(@)]
    IN TransferReturn(v, "FileTransferError", NoFile, "none")

\* The byte offset a resumed transfer continues from.
Offset(u) == IF u.call = "download" THEN u.local_size ELSE u.remote_size

\* The session after _send_command/_read_response under reply.
AfterTransferReply(c, reply) ==
    IF reply = "transport" THEN [c EXCEPT !.connected = FALSE] ELSE c

TransferStart(op, resume, local, remote, active) ==
    /\ user.pc = "ready"
    /\ client[client_count].logged_in
    /\ op = "upload" => local # NoFile
    /\ user' = TransferCall(op, resume, local, remote, active)
    /\ UNCHANGED <<clock, sessVars, poolVars, queueRest>>

\* download: remote_size = self.size(remote_path), 0 on CommandError, and the
\* resume test on the local file.  upload with resume: the same call inside
\* the try whose except leaves remote_size = 0.
TransferSize ==
    /\ user.pc = "size"
    /\ LET s == user.arg
           u0 == [user EXCEPT !.sent = Append(@, "SIZE")]
       IN IF ~CanSendOn(client[s])
          THEN /\ user' = TransferReturn(user, "ConnectionError", NoFile, "none")
               /\ UNCHANGED client
          ELSE \E reply \in SizeReplies(user.remote) :
                 /\ client' = [client EXCEPT ![s] = AfterTransferReply(@, reply)]
                 /\ LET u == [u0 EXCEPT !.size_reply = reply,
                                        !.remote_size = IF reply = "ok" THEN u0.remote ELSE 0]
                    IN user' =
                         IF reply = "transport"
                         THEN TransferReturn(u, "ConnectionError", NoFile, "none")
                         ELSE IF u.call = "download"
                         THEN IF u.resume /\ u.local # NoFile
                              THEN LET v == [u EXCEPT !.local_size = u.local]
                                   IN IF SkipTransfer(v.local_size, v.remote_size)
                                      THEN TransferReturn(v, "True", v.remote_size, "0")
                                      ELSE [v EXCEPT !.pc = "create_data"]
                              ELSE [u EXCEPT !.pc = "create_data"]
                         ELSE IF reply = "ok" /\ SkipTransfer(u.remote_size, u.local_size)
                              THEN TransferReturn(u, "True", u.local_size, "0")
                              ELSE [u EXCEPT !.pc = "create_data"]
    /\ UNCHANGED <<clock, client_count, poolVars, queueRest>>

\* What comes back for PORT: 200; another reply that is not 5xx, which
\* _create_active_connection answers with server_sock.close(); a 5xx line,
\* which _read_response raises as CommandError; a transport failure.
PortReplies == {"ok", "other", "5xx", "transport"}

\* data_sock = self._create_data_connection().  Passive mode: the connected
\* socket, or ConnectionError.  Active mode: bind and listen, then PORT and
\* its reply: the listening socket on 200, otherwise ConnectionError.
TransferCreateData ==
    /\ user.pc = "create_data"
    /\ LET s == user.arg
           next == IF user.resume /\ Offset(user) > 0 THEN "rest" ELSE "command"
           failed(u) == TransferReturn(u, "ConnectionError", NoFile, "none")
       IN IF ~user.active
          THEN \/ /\ CanSendOn(client[s])
                  /\ user' = [user EXCEPT !.pc = next, !.data_sock = "conn",
                                          !.conn = "open"]
                  /\ UNCHANGED client
               \/ /\ user' = failed(user)
                  /\ \/ UNCHANGED client
                     \/ client' = [client EXCEPT ![s].connected = FALSE]
          ELSE IF ~CanSendOn(client[s])
          THEN /\ user' = failed([user EXCEPT !.listener = "open"])
               /\ UNCHANGED client
          ELSE \E reply \in PortReplies :
                 /\ client' = [client EXCEPT ![s] = AfterTransferReply(@, reply)]
                 /\ LET u == [user EXCEPT !.listener = "open", !.port_reply = reply,
                                          !.sent = Append(@, "PORT")]
                    IN user' = IF reply = "ok"
                               THEN [u EXCEPT !.pc = next, !.data_sock = "listener"]
                               ELSE IF reply = "other"
                               THEN failed([u EXCEPT !.listener = CloseSocket(@)])
                               ELSE failed(u)
    /\ UNCHANGED <<clock, client_count, poolVars, queueRest>>

\* "REST offset" and its reply.
TransferRest ==
    /\ user.pc = "rest"
    /\ \E reply \in TransferReplies :
         /\ client' = [client EXCEPT ![user.arg] = AfterTransferReply(@, reply)]
         /\ LET u == [user EXCEPT !.sent = Append(@, "REST")]
            IN user' = IF reply = "ok" THEN [u EXCEPT !.pc = "command"]
                       ELSE RaiseInTry(u)
    /\ UNCHANGED <<clock, client_count, poolVars, queueRest>>

\* The command that starts the transfer.
TransferVerb(u) == IF u.call = "download" THEN "RETR"
                   ELSE IF u.resume /\ u.remote_size > 0 THEN "APPE" ELSE "STOR"

\* open(local_path, "ab" if resume else "wb") of download; upload opens
\* the file for reading.
OpenLocal(u) ==
    IF u.call = "upload" THEN u
    ELSE [u EXCEPT !.file = IF u.resume /\ u.file # NoFile THEN u.file ELSE 0]

\* RETR, STOR or APPE and its reply: on 150 the transfer goes on (to
\* accept() in active mode), otherwise data_sock.close() and CommandError
\* inside the try.
TransferCommand ==
    /\ user.pc = "command"
    /\ \E reply \in TransferReplies :
         /\ client' = [client EXCEPT ![user.arg] = AfterTransferReply(@, reply)]
         /\ LET u == [user EXCEPT !.sent = Append(@, TransferVerb(user))]
            IN user' = IF reply # "ok" THEN RaiseInTry(u)
                       ELSE IF u.active THEN [u EXCEPT !.pc = "accept"]
                       ELSE [OpenLocal(u) EXCEPT !.pc = "stream"]
    /\ UNCHANGED <<clock, client_count, poolVars, queueRest>>

\* Active mode: client_sock, _ = data_sock.accept(); data_sock.close();
\* data_sock = client_sock; or accept() times out.
TransferAccept ==
    /\ user.pc = "accept"
    /\ \/ user' = [OpenLocal(user) EXCEPT !.pc = "stream", !.listener = CloseSocket(@),
                                          !.conn = "open", !.data_sock = "conn"]
       \/ user' = RaiseInTry(user)
    /\ UNCHANGED <<clock, sessVars, poolVars, queueRest>>

\* One round of the receive loop of download or the send loop of upload: a
\* chunk is moved and the progress callback is told (done, total); the
\* stream ends (an empty chunk, socket.timeout, end of the local file); or
\* the socket or the file raises.
TransferChunk ==
    /\ user.pc = "stream"
    /\ \/ /\ user.call = "download"
          /\ user.file < MaxFile
          /\ user' = [user EXCEPT !.file = @ + 1, !.bytes = @ + 1,
                        !.total = IF user.remote_size > 0 THEN user.remote_size
                                  ELSE user.bytes + 1]
       \/ /\ user.call = "upload"
          /\ Offset(user) + user.bytes < user.local
          /\ user' = [user EXCEPT !.bytes = @ + 1, !.total = user.local_size]
       \/ /\ user.call = "upload" => Offset(user) + user.bytes >= user.local
          /\ user' = [user EXCEPT !.pc = "final", !.conn = CloseSocket(@)]
       \/ user' = RaiseInTry(user)
    /\ UNCHANGED <<clock, sessVars, poolVars, queueRest>>

\* After data_sock.close(): the reply that ends the transfer; 226 returns
\* (True, offset + bytes, elapsed_time), anything else raises inside the try.
TransferFinal ==
    /\ user.pc = "final"
    /\ \E reply \in TransferReplies :
         /\ client' = [client EXCEPT ![user.arg] = AfterTransferReply(@, reply)]
         /\ user' = IF reply = "ok"
                    THEN TransferReturn(user, "True", Offset(user) + user.bytes, "measured")
                    ELSE RaiseInTry(user)
    /\ UNCHANGED <<clock, client_count, poolVars, queueRest>>

\* The frame of a quit() call that has returned True.
QuitReturn(s) ==
    [Ready EXCEPT !.pc = "returned", !.call = "quit", !.ret = "True", !.arg = s]

\* quit() on the session.
SessionQuit ==
    /\ user.pc = "ready"
    /\ client' = [client EXCEPT ![client_count] = quit(@)]
    /\ user' = QuitReturn(client_count)
    /\ UNCHANGED <<clock, client_count, poolVars, queueRest>>

\* One FTPClient, connected and logged in.
InitTransfer ==
    /\ clock = 0
    /\ client_count = 1
    /\ client = [s \in ClientIds |-> IF s = client_count THEN ConnectedClient(TRUE)
                                     ELSE NewClient]
    /\ InitPool
    /\ InitQueueOff

NextTransfer ==
    \/ \E op \in {"download", "upload"}, resume, active \in BOOLEAN,
          local, remote \in FileSizes \cup {NoFile} :
         TransferStart(op, resume, local, remote, active)
    \/ TransferSize
    \/ TransferCreateData
    \/ TransferRest
    \/ TransferCommand
    \/ TransferAccept
    \/ TransferChunk
    \/ TransferFinal
    \/ SessionQuit
    \/ PoolResume

SpecTransfer == InitTransfer /\ [][NextTransfer]_vars


(***************************************************************************)
(* FTPClient._read_response on a byte stream.  A reply is a sequence of    *)
(* characters: the digits "2" and "5", space, hyphen, "x" for any other    *)
(* character of the text and "n" for the line end.  The network hands the  *)
(* bytes to recv(1024) in chunks of any length.                            *)
(***************************************************************************)
MaxChunk == 12

\* Replies a server sends: one line, one line whose text holds a space, a
\* two-line reply, a 5xx line.
ServerReplies ==
    { <<"2", "2", "2", " ", "x", "n">>,
      <<"2", "2", "2", " ", "x", " ", "x", "n">>,
      <<"2", "2", "2", "-", "x", "n", "2", "2", "2", " ", "x", "n">>,
      <<"5", "5", "2", " ", "x", "n">> }

\* line.startswith('5') and line[3:4] == ' '
ChunkIsError(line) == Len(line) > 3 /\ line[1] = "5" /\ line[4] = " "

\* len(line) > 3 and line[3:4] == ' '
ChunkEnds(line) == Len(line) > 3 /\ line[4] = " "

\* _read_response is entered on a connected session while the bytes of
\* reply are on their way.
ReadCall(reply) ==
    [pc |-> "recv", call |-> "_read_response", ret |-> "none", arg |-> client_count,
     reply |-> reply, wire |-> reply, response |-> <<>>, reads |-> <<>>]

ReadStart(reply) ==
    /\ user.pc = "ready"
    /\ CanSendOn(client[client_count])
    /\ user' = ReadCall(reply)
    /\ UNCHANGED <<clock, sessVars, poolVars, queueRest>>

\* One round of the while loop: recv(1024) hands over the next k bytes,
\* response += line, then the two tests on line.  With nothing left to
\* come recv raises socket.timeout and the call raises TimeoutError.
ReadRecv(k) ==
    /\ user.pc = "recv"
    /\ IF user.wire = <<>>
       THEN /\ k = 1
            /\ user' = [user EXCEPT !.pc = "returned", !.ret = "TimeoutError"]
       ELSE /\ k <= Len(user.wire)
            /\ LET line == SubSeq(user.wire, 1, k)
                   u == [user EXCEPT !.wire = SubSeq(@, k + 1, Len(@)),
                                     !.response = @ \o line,
                                     !.reads = Append(@, k)]
               IN user' = IF ChunkIsError(line)
                          THEN [u EXCEPT !.pc = "returned", !.ret = "CommandError"]
                          ELSE IF ChunkEnds(line)
                          THEN [u EXCEPT !.pc = "returned", !.ret = "response"]
                          ELSE u
    /\ UNCHANGED <<clock, sessVars, poolVars, queueRest>>

NextRead ==
    \/ \E reply \in ServerReplies : ReadStart(reply)
    \/ \E k \in 1..MaxChunk : ReadRecv(k)
    \/ PoolResume

SpecRead == InitTransfer /\ [][NextRead]_vars


(***************************************************************************)
(* TokenBucket under the send loop of upload and the receive loop of       *)
(* download.  Time is counted in ticks of 1/fill_rate seconds, so that     *)
(* elapsed * fill_rate is the number of ticks elapsed and wait_time *      *)
(* fill_rate the number of ticks slept: every quantity is an integer.      *)
(***************************************************************************)
MaxRate == 2       \* the largest limit_bytes_per_sec
MaxConsume == 3    \* the largest chunk handed to consume
MaxSends == 4      \* chunks moved in one transfer
MaxNow == 6        \* ticks the transfer may last

Min(a, b) == IF a <= b THEN a ELSE b

\* TokenBucket(capacity, fill_rate) created at time now (in ticks).
TokenBucket(capacity, fill_rate, now) ==
    [capacity |-> capacity, fill_rate |-> fill_rate, tokens |-> capacity,
     last_time |-> now]

\* TokenBucket.consume(tokens) called at time now: the bucket afterwards and
\* the wait it returns (in ticks).
consume(b, tokens, now) ==
    LET elapsed == now - b.last_time
        filled == Min(b.capacity, b.tokens + elapsed)
    IN IF tokens <= filled
       THEN [b |-> [b EXCEPT !.tokens = filled - tokens, !.last_time = now], wait |-> 0]
       ELSE [b |-> [b EXCEPT !.tokens = 0, !.last_time = now], wait |-> tokens - filled]

\* set_bandwidth_limit(limit_bytes_per_sec) followed by a transfer: the
\* bucket, the time, and the chunks moved so far with the time of each.
ThrottleCall(rate) ==
    [pc |-> "loop", call |-> "throttle", ret |-> "none", arg |-> client_count,
     bucket |-> TokenBucket(rate, rate, 0), now |-> 0, log |-> <<>>]

ThrottleStart(rate) ==
    /\ user.pc = "ready"
    /\ client[client_count].logged_in
    /\ user' = ThrottleCall(rate)
    /\ UNCHANGED <<clock, sessVars, poolVars, queueRest>>

\* One round of the loop: wait_time = self.token_bucket.consume(n), the
\* time.sleep(wait_time) when it is positive, then the chunk of n bytes is
\* moved.
ThrottleChunk(n) ==
    /\ user.pc = "loop"
    /\ Len(user.log) < MaxSends
    /\ LET r == consume(user.bucket, n, user.now)
           at == user.now + r.wait
       IN user' = [user EXCEPT !.bucket = r.b, !.now = at,
                               !.log = Append(@, [time |-> at, bytes |-> n])]
    /\ UNCHANGED <<clock, sessVars, poolVars, queueRest>>

\* Time the loop spends in file and socket calls.
ThrottleElapse ==
    /\ user.pc = "loop"
    /\ user.now < MaxNow
    /\ user' = [user EXCEPT !.now = @ + 1]
    /\ UNCHANGED <<clock, sessVars, poolVars, queueRest>>

\* The transfer ends.
ThrottleEnd ==
    /\ user.pc = "loop"
    /\ user' = [user EXCEPT !.pc = "returned", !.ret = "True"]
    /\ UNCHANGED <<clock, sessVars, poolVars, queueRest>>

NextThrottle ==
    \/ \E rate \in 1..MaxRate : ThrottleStart(rate)
    \/ \E n \in 1..MaxConsume : ThrottleChunk(n)
    \/ ThrottleElapse
    \/ ThrottleEnd
    \/ PoolResume

SpecThrottle == InitTransfer /\ [][NextThrottle]_vars

\* ---------------------------------------------------------------------
\* The representation type of one session over its transfers.  The frame
\* of the caller carries the session's cached transfer_mode, the type in
\* effect on the server for the current control connection, the mode the
\* transfer selected, and the transfers that ran.
MaxRuns == 4             \* transfers one session runs

TransferModes == {"ASCII", "BINARY"}

\* __init__: self.transfer_mode = TransferMode.BINARY; connect and login
\* send no TYPE, the server of a new control connection is in ASCII.
ModeCall ==
    [pc |-> "idle", call |-> "mode", ret |-> "none", arg |-> client_count,
     transfer_mode |-> "BINARY", server_type |-> "ASCII", mode |-> "none", runs |-> <<>>]

ModeStart ==
    /\ user.pc = "ready"
    /\ client[client_count].logged_in
    /\ user' = ModeCall
    /\ UNCHANGED <<clock, sessVars, poolVars, queueRest>>

\* upload / download up to set_transfer_mode(mode): AuthenticationError
\* when not logged in; nothing is sent when the cache equals mode; else
\* TYPE is sent, a 200 reply sets the server's type and the cache, any other
\* outcome raises and leaves the cache.
ModeSelect(mode) ==
    /\ user.pc = "idle"
    /\ Len(user.runs) < MaxRuns
    /\ LET c == user.arg
       IN IF ~client[c].logged_in
          THEN /\ user' = [user EXCEPT !.ret = "AuthenticationError"]
               /\ UNCHANGED client
          ELSE IF user.transfer_mode = mode
          THEN /\ user' = [user EXCEPT !.pc = "transfer", !.mode = mode, !.ret = "none"]
               /\ UNCHANGED client
          ELSE \E o \in Replies(c) :
                 /\ client' = AfterReply(client, c, o)
                 /\ user' = IF o = "ok"
                            THEN [user EXCEPT !.pc = "transfer", !.mode = mode, !.ret = "none",
                                              !.transfer_mode = mode, !.server_type = mode]
                            ELSE [user EXCEPT !.ret = IF o = "refused" THEN "CommandError"
                                                      ELSE "ConnectionError"]
    /\ UNCHANGED <<clock, client_count, poolVars, queueRest>>

\* RETR / STOR / APPE runs in the type the server is in.
ModeTransfer ==
    /\ user.pc = "transfer"
    /\ user' = [user EXCEPT !.pc = "idle",
                            !.runs = Append(@, [mode |-> user.mode, type |-> user.server_type])]
    /\ UNCHANGED <<clock, sessVars, poolVars, queueRest>>

\* login through _execute_with_retry after a ConnectionError:
\* _close_connection, connect, and the login succeeds on the new control
\* connection.  Nothing touches self.transfer_mode.
ModeReconnect ==
    /\ user.pc = "idle"
    /\ client' = [client EXCEPT ![user.arg] = ConnectedClient(TRUE)]
    /\ user' = [user EXCEPT !.server_type = "ASCII", !.ret = "none"]
    /\ UNCHANGED <<clock, client_count, poolVars, queueRest>>

NextMode ==
    \/ ModeStart
    \/ \E mode \in TransferModes : ModeSelect(mode)
    \/ ModeTransfer
    \/ ModeReconnect

SpecMode == InitTransfer /\ [][NextMode]_vars

\* C1: idle sessions plus sessions held by borrowers never exceed
\* max_connections.
C1_PoolBounded == Len(pool) + Cardinality({s \in held : client[s].connected}) <= max_connections

(***************************************************************************)
(* The properties.                                                         *)
(***************************************************************************)
\* C2: on every FTPClient session at most one thread at a time is between
\* sending a command and reading its reply.
C2_OneCommandInFlight == \A c \in ClientIds : Cardinality(inflight[c]) <= 1

\* The status changes the task model allows (and a task's creation).
LegalTransitions ==
    { <<"NONE", "PENDING">>, <<"PENDING", "RUNNING">>, <<"RUNNING", "COMPLETED">>,
      <<"RUNNING", "FAILED">>, <<"RUNNING", "CANCELED">>, <<"FAILED", "RETRYING">>,
      <<"RETRYING", "PENDING">>, <<"PENDING", "CANCELED">> }

\* C3: a task's status only ever changes along the legal transitions
\* PENDING->RUNNING, RUNNING->COMPLETED/FAILED/CANCELED, FAILED->RETRYING,
\* RETRYING->PENDING and PENDING->CANCELED.
C3_LegalTransitions ==
    [][\A t \in TaskIds : task'[t].status # task[t].status
                          => <<task[t].status, task'[t].status>> \in LegalTransitions]_vars

\* C4: cancel_task on a task that is still PENDING in the queue sets its
\* status to CANCELED (so that the worker that pops it skips it).
C4_CancelPendingSetsCanceled ==
    \A t \in TaskIds :
        (/\ user.pc = "returned" /\ user.call = "cancel_task" /\ user.arg = t
         /\ t \in SeqToSet(task_queue) /\ t \in hist.waiting
         /\ task[t].retry_count = 0)
        => task[t].status = "CANCELED"

\* Task u is ahead of task t: a higher priority, or the same priority and
\* submitted earlier.
Ahead(u, t) == \/ task[u].priority > task[t].priority
               \/ task[u].priority = task[t].priority /\ u < t

\* C5: a task is popped for dispatch only when no task that waits for
\* dispatch has a higher priority, or the same priority and an earlier
\* submission.
C5_DispatchOrder ==
    [][\A w \in Workers :
         (worker[w].pc = "get" /\ worker'[w].pc = "popped")
         => \A u \in hist'.waiting : ~Ahead(u, worker'[w].task)]_vars

\* C6: over a task's whole lifetime on_complete is invoked at most once and
\* on_error at most once.
C6_CallbacksAtMostOnce ==
    \A t \in TaskIds : hist.complete_calls[t] <= 1 /\ hist.error_calls[t] <= 1

\* C7: a task that failed with a permanent error is never taken for a retry.
C7_PermanentNotRetried ==
    \A t \in TaskIds : task[t].status = "RETRYING" => task[t].error # "permanent"

\* C8: wait_for_task returns true exactly when the task is COMPLETED, and
\* false (the timeout apart) only when it is FAILED or CANCELED.
C8_WaitForTaskResult ==
    \A t \in TaskIds :
        (user.pc = "returned" /\ user.call = "wait_for_task" /\ user.arg = t)
        => /\ user.ret = "true" <=> task[t].status = "COMPLETED"
           /\ user.ret = "false" => task[t].status \in {"FAILED", "CANCELED"}

\* C9: whenever wait_all returns true the queue is empty and no task is
\* popped but not yet running, RUNNING, or held by the retry monitor for
\* reinjection.
C9_WaitAllIdle ==
    (user.pc = "returned" /\ user.call = "wait_all" /\ user.ret = "true")
    => /\ task_queue = <<>>
       /\ \A w \in Workers : worker[w].pc # "popped"
       /\ \A t \in TaskIds : task[t].status # "RUNNING"
       /\ retry.tasks = <<>>

\* C10: when shutdown(wait=True) returns no task is RUNNING and no worker
\* holds a session of the pool.
C10_ShutdownQuiescent ==
    (user.pc = "returned" /\ user.call = "shutdown_wait")
    => /\ \A t \in TaskIds : task[t].status # "RUNNING"
       /\ \A w \in Workers : worker[w].client = NoClient
       /\ clients_in_use = {}


C12_StartBeforeEnd ==
    \A t \in TaskIds :
        (task[t].start_time # NoTime /\ task[t].end_time # NoTime)
            => task[t].start_time <= task[t].end_time

\* C13: the retry_count of a task never exceeds its max_retries, however the
\* workers, the retry thread and cancel_task interleave.
C13_RetryCountBounded ==
    \A t \in TaskIds : task[t].retry_count <= task[t].max_retries

\* A task that used up its retries and failed again: it is in failed_tasks
\* with retry_count = max_retries, where the retry thread looks at it.
C13_Witness ==
    \E t \in TaskIds :
        /\ task[t].max_retries > 0
        /\ task[t].retry_count = task[t].max_retries
        /\ task[t].status = "FAILED"
        /\ t \in SeqToSet(failed_tasks)
        /\ retry.pc = "sleeping"

\* C14: a task cancelled while PENDING ends CANCELED, its on_complete is
\* never called and its on_error is called exactly once.
C14_CancelPendingCallbacks ==
    \A t \in hist.cancelled :
        /\ hist.complete_calls[t] = 0
        /\ task[t].status \in {"COMPLETED", "FAILED", "CANCELED"}
             => (task[t].status = "CANCELED" /\ hist.error_calls[t] = 1)


\* C15: every session in the idle set of the FTPConnectionPool is connected,
\* logged in and held by no borrower, whatever was acquired and released,
\* also a session acquired without credentials and then released.
C15_IdleSessionsUsable ==
    \A s \in PoolClients(pool) :
        client[s].connected /\ client[s].logged_in /\ s \notin held

\* C16: once close_all has returned (it left validation_timer None), no
\* get_connection hands out a session, an idle one or a new one.
C16_NoAcquireAfterCloseAll ==
    [][(validation_timer = "none" /\ user.pc = "ready" /\ user'.pc = "returned")
            => user'.ret \notin {"reused", "created"}]_vars

\* get_connection has just returned, having started in a state with no idle
\* session and active_connections at max_connections.
AtLimitCall ==
    /\ user.pc = "ready"
    /\ user'.pc = "returned"
    /\ pool = <<>>
    /\ active_connections >= max_connections

IdleIndex(p, s) == IF s \in PoolClients(p)
                   THEN CHOOSE i \in 1..Len(p) : p[i][1] = s ELSE 0

\* release_connection of a connected session: it becomes the last of the
\* idle list and active_connections goes down by one.
ReleaseMovesToIdle ==
    \A s \in held \ held' :
        client[s].connected =>
            /\ Len(pool') = Len(pool) + 1
            /\ pool'[Len(pool')][1] = s
            /\ active_connections' = active_connections - 1

\* get_connection reusing session s: it was idle, every session released
\* after it has failed the probe and been closed, the sessions released
\* before it stay idle; the reuse is counted and nothing is created.
ReuseTakesLastAlive ==
    (user.pc = "ready" /\ user'.pc = "returned" /\ user'.ret = "reused") =>
        LET s == user'.arg
            i == IdleIndex(pool, s)
        IN /\ i > 0
           /\ pool' = SubSeq(pool, 1, i - 1)
           /\ \A j \in (i + 1)..Len(pool) : ~client'[pool[j][1]].connected
           /\ client'[s].connected
           /\ s \in held'
           /\ pool_stats'.reused = pool_stats.reused + 1
           /\ pool_stats'.created = pool_stats.created
           /\ client_count' = client_count

\* get_connection creating a session: no idle session passed the probe.
CreateOnlyWithoutIdle ==
    (user.pc = "ready" /\ user'.pc = "returned" /\ user'.ret = "created") =>
        /\ pool' = <<>>
        /\ \A j \in 1..Len(pool) : ~client'[pool[j][1]].connected
        /\ pool_stats'.created = pool_stats.created + 1
        /\ pool_stats'.reused = pool_stats.reused

\* C18: a released healthy session goes to the idle set (active_connections
\* down by one, one more idle session); the next get_connection returns it,
\* counting a reuse and no creation; a session is created only when no idle
\* session passes the probe.
C18_ReleaseThenReuse ==
    [][ReleaseMovesToIdle /\ ReuseTakesLastAlive /\ CreateOnlyWithoutIdle]_vars

\* A session was released and get_connection has given it out again, an
\* older idle session staying behind; nothing was created for it.
C18_Witness ==
    /\ user.pc = "returned"
    /\ user.ret = "reused"
    /\ user.arg \in held
    /\ pool # <<>>
    /\ pool_stats.reused = 1
    /\ pool_stats.created = 2

\* C20: when the creation of a session fails in get_connection, the caller
\* gets the kind of the underlying error (ConnectionError for a transport
\* failure, AuthenticationError for rejected credentials), the failure is
\* counted and active_connections is unchanged.
C20_CreateFailureReported ==
    [][(user.pc = "ready" /\ user'.pc = "returned" /\ user'.cause # "none") =>
          /\ user'.ret = (IF user'.cause = "login_rejected" THEN "AuthenticationError"
                                                             ELSE "ConnectionError")
          /\ pool_stats'.failures = pool_stats.failures + 1
          /\ active_connections' = active_connections]_vars


C21_NoSubmitAfterShutdown ==
    [][shutdown_flag =>
         /\ task_id_counter' = task_id_counter
         /\ \A t \in TaskIds : t > task_id_counter =>
                t \notin SeqToSet(task_queue')]_vars


\* C22: a download whose SIZE command failed with an error reply and that
\* returned success has sent RETR, whatever the resume flag and the local
\* file were, and every total it reported is the number of bytes received.
C22_SizeFailureStillDownloads ==
    (user.pc = "returned" /\ user.call = "download" /\ user.size_reply = "error"
        /\ user.ret = "True")
    => /\ "RETR" \in SeqToSet(user.sent)
       /\ user.total \in {NoFile, user.bytes}

\* The call found, with resume set, that what is already at the destination
\* covers the source: the local file against the size download worked out,
\* or the size SIZE reported against the local file of upload.
ResumeCovered ==
    /\ user.pc = "returned" /\ user.call \in {"download", "upload"}
    /\ user.resume
    /\ \/ /\ user.call = "download"
          /\ user.size_reply \in {"ok", "error"}
          /\ user.local # NoFile /\ user.local >= user.remote_size
       \/ /\ user.call = "upload"
          /\ user.size_reply = "ok"
          /\ user.remote_size >= user.local

\* C23: a resumed download whose local file is at least as large as the
\* remote size, and a resumed upload whose remote size is at least the
\* local size, return success with elapsed 0 having opened no data
\* connection and sent none of REST, RETR, STOR, APPE, the local file as it
\* was.
C23_ResumeSkipIsNoOp ==
    ResumeCovered
    => /\ user.ret = "True" /\ user.elapsed = "0"
       /\ user.data_sock = "none" /\ user.listener = "none" /\ user.conn = "none"
       /\ SeqToSet(user.sent) \cap {"REST", "RETR", "STOR", "APPE"} = {}
       /\ user.file = user.local /\ user.bytes = 0

C23_Witness ==
    /\ ResumeCovered
    /\ user.call = "download" /\ user.size_reply = "ok"
    /\ user.local = user.remote /\ user.local > 0
    /\ user.ret = "True"

\* C24: when quit() has returned the session has no control socket and is
\* neither connected nor logged in, whatever state it was called in.
C24_QuitClosesEverything ==
    (user.pc = "returned" /\ user.call = "quit")
    => LET c == client[user.arg]
       IN ~c.cmd_socket /\ ~c.connected /\ ~c.logged_in

\* download or upload has ended with an exception after
\* _create_data_connection returned its socket.
FailedAfterDataConnection ==
    /\ user.pc = "returned" /\ user.call \in {"download", "upload"}
    /\ user.data_sock # "none"
    /\ user.ret # "True"

\* C29: a download or upload that fails after its data connection was
\* created raises FileTransferError with neither the data socket nor the
\* active-mode listener left open, and the local file holds what it held
\* when the transfer stopped: the part kept by resume plus the bytes
\* received (untouched when the file was never opened or on upload).
C29_FailureClosesDataSocket ==
    FailedAfterDataConnection
    => /\ user.ret = "FileTransferError"
       /\ user.conn # "open" /\ user.listener # "open"
       /\ LET kept == IF user.resume /\ user.local # NoFile THEN user.local ELSE 0
          IN IF user.call = "download" /\ user.bytes > 0
             THEN user.file = kept + user.bytes
             ELSE user.file \in {user.local, kept}

C29_Witness ==
    /\ FailedAfterDataConnection
    /\ user.call = "download" /\ user.active /\ user.resume
    /\ user.local > 0 /\ user.bytes > 0
    /\ user.listener = "closed" /\ user.conn = "closed"


\* C25: when a step of the facade's disconnect (close_all) closes the
\* control socket of a session, no worker is holding that session for the
\* handler it is executing.
C25_PoolClosedAfterWorkers ==
    [][\A c \in ClientIds :
         (user.call = "disconnect" /\ user' # user
             /\ client[c].cmd_socket /\ ~client'[c].cmd_socket)
         => \A w \in Workers : worker[w].client # c]_vars


\* C26: while the retry monitor waits before putting a failed task back on
\* the queue, the wait is retry_delay * 2^n, n being the number of retries
\* the task had made before this one.
C26_RetryBackoff ==
    retry.pc = "delay"
    => LET t == Head(retry.tasks)
       IN retry.delay = retry_delay * 2 ^ (task[t].retry_count - 1)


\* C27: for a reply that is not an error reply, however its bytes are
\* split over the reads, _read_response has returned the response exactly
\* when everything up to the end of the terminating line has been received.
C27_ReturnsAtTerminatingLine ==
    (user.call = "_read_response" /\ user.reply[1] # "5")
    => ((user.pc = "returned" /\ user.ret = "response")
           <=> user.response = user.reply)


RECURSIVE BytesBetween(_, _, _)
\* The bytes of entries i..j of a log of moved chunks.
BytesBetween(log, i, j) ==
    IF i > j THEN 0 ELSE log[i].bytes + BytesBetween(log, i + 1, j)

\* C28: with capacity = fill_rate = R and chunks of at most R bytes the
\* token count stays within [0, R], and the bytes moved during any interval
\* of t seconds (R * t ticks) are at most R + R * t.
C28_BucketBound ==
    (user.call = "throttle"
        /\ \A i \in 1..Len(user.log) : user.log[i].bytes <= user.bucket.capacity)
    => /\ user.bucket.tokens >= 0 /\ user.bucket.tokens <= user.bucket.capacity
       /\ \A i, j \in 1..Len(user.log) :
            i <= j => BytesBetween(user.log, i, j)
                         <= user.bucket.capacity + (user.log[j].time - user.log[i].time)


\* C30: when download_directory has returned, every directory of the tree
\* whose LIST task completed successfully and that holds a file has a
\* DOWNLOAD task for that file.
C30_EveryListedFileDownloaded ==
    (user.call = "download_directory" /\ user.pc = "dir_done")
    => \A l \in 1..Len(user.lists) :
         (task[user.lists[l]].status = "COMPLETED" /\ user.tree[l])
         => user.files[l] # NoTask


\* The verbs that start a data transfer.
TransferVerbs == {"RETR", "STOR", "APPE"}

\* The index of the first command of S in the sequence sent, 0 when none is.
FirstSent(sent, S) ==
    IF \E i \in 1..Len(sent) : sent[i] \in S
    THEN CHOOSE i \in 1..Len(sent) : sent[i] \in S /\ \A j \in 1..(i - 1) : sent[j] \notin S
    ELSE 0

\* The order of an active-mode transfer up to the verb: the listener exists
\* and PORT was acknowledged before the verb is sent, and the inbound
\* connection is accepted only after the verb, the listener closed with it.
ActiveOrder ==
    (user.call \in {"download", "upload"} /\ user.active)
    => /\ FirstSent(user.sent, TransferVerbs) > 0
          => /\ user.listener # "none" /\ user.port_reply = "ok"
             /\ FirstSent(user.sent, {"PORT"}) \in 1..(FirstSent(user.sent, TransferVerbs) - 1)
       /\ user.conn # "none"
          => FirstSent(user.sent, TransferVerbs) > 0 /\ user.listener = "closed"

\* C31: an active-mode transfer goes bind+listen, PORT acknowledged,
\* transfer verb, accept, listener closed, in this order, and a call that
\* ends because PORT was rejected leaves no listener open.
C31_ActiveModeOrder ==
    /\ ActiveOrder
    /\ (user.call \in {"download", "upload"} /\ user.pc = "returned"
           /\ user.port_reply \in {"other", "5xx"})
       => user.listener = "closed"


\* The step is a whole pass of _validate_connections.
ValidatorPass == validator_pc = "fired" /\ validator_pc' = "restart"

C33_CancelledNeverStarted ==
    [][\A t \in TaskIds :
         t \in hist.cancelled
         => ~(task[t].status # "RUNNING" /\ task'[t].status = "RUNNING")]_vars


\* C34: when a worker is through with a task, also when on_complete or
\* on_error raised, the task has the status its handler decided (COMPLETED
\* after a result, FAILED after an exception), is in exactly one of
\* completed_tasks and failed_tasks, and is not in active_tasks.
C34_RaisingCallbackKeepsStatus ==
    [][\A w \in Workers :
         (worker[w].pc = "finish" /\ worker'[w].pc # "finish")
         => LET t == worker[w].task
            IN /\ task'[t].status = IF worker[w].result = "ok" THEN "COMPLETED"
                                    ELSE "FAILED"
               /\ (t \in completed_tasks') # (t \in SeqToSet(failed_tasks'))
               /\ t \notin active_tasks']_vars

\* A task at rest: COMPLETED, CANCELED, or FAILED with its retries used up.
Rests(t) ==
    \/ task[t].status \in {"COMPLETED", "CANCELED"}
    \/ task[t].status = "FAILED" /\ task[t].retry_count = task[t].max_retries

\* The handler invocations of a task so far: every finished one ended in
\* mark_completed or in mark_failed, and one more is under way while RUNNING.
HandlerRuns(t) ==
    hist.complete_calls[t] + hist.error_calls[t] + (IF task[t].status = "RUNNING" THEN 1 ELSE 0)

\* C35: the handler of a task is invoked at most max_retries + 1 times, and
\* with the workers and the retry monitor scheduled fairly every submitted
\* task eventually rests for good in COMPLETED, CANCELED, or FAILED with
\* retry_count = max_retries.
C35_Terminates ==
    /\ [](\A t \in TaskIds : HandlerRuns(t) <= task[t].max_retries + 1)
    /\ \A t \in TaskIds : [](task[t].status # "NONE" => <>[]Rests(t))

\* A worker between get_client and the end of release_client.
InHandler(w) == worker[w].pc \in {"register", "op", "op_recv", "release", "release_recv"}

\* C36: a session a handler got from the pool is released exactly once,
\* whether the operation returned or raised, and before the task is marked
\* COMPLETED or FAILED: a worker that marks holds no session, a session leaves
\* a worker only through release_client (to the idle pool, or quit) and is
\* then no longer registered, every registered session is the one session of
\* a worker inside a handler, and no idle session is held or pooled twice.
C36_ReleasedOnce ==
    /\ [](/\ \A w \in Workers :
              /\ worker[w].pc = "finish" => worker[w].client = NoClient
              /\ InHandler(w) => /\ worker[w].client # NoClient
                                 /\ worker[w].client \notin SeqToSet(client_pool)
          /\ clients_in_use \subseteq {worker[w].client : w \in {v \in Workers : InHandler(v)}}
          /\ Cardinality(SeqToSet(client_pool)) = Len(client_pool))
    /\ [][/\ \A w \in Workers :
              LET c == worker[w].client
              IN (c # NoClient /\ worker'[w].client # c)
                 => /\ worker[w].pc \in {"release", "release_recv"}
                    /\ worker'[w].pc = "finish"
                    /\ worker'[w].client = NoClient
                    /\ c \notin clients_in_use'
                    /\ (c \in SeqToSet(client_pool')) # (~client'[c].connected)
          /\ \A t \in TaskIds :
              (task[t].status = "RUNNING" /\ task'[t].status \in {"COMPLETED", "FAILED"})
              => \E w \in Workers : /\ worker[w].pc = "finish"
                                     /\ worker[w].task = t
                                     /\ worker[w].client = NoClient]_vars

\* The operation raised, the session was released to the idle pool, and the
\* worker is about to mark the task FAILED.
C36_Witness ==
    \E w \in Workers :
        /\ worker[w].pc = "finish"
        /\ worker[w].result = "permanent"
        /\ task[worker[w].task].status = "RUNNING"
        /\ client_pool # <<>>
        /\ clients_in_use = {}

\* C37: active_connections is never negative and equals the number of
\* sessions borrowers got from get_connection and have not released, however
\* get_connection, release_connection and close_all interleave (each
\* borrower releases each session it got once).
C37_ActiveCountsHeld ==
    /\ active_connections >= 0
    /\ active_connections = Cardinality(held)

\* C38: the cached transfer_mode of a session equals the representation
\* type in effect on the server for the current control connection, and
\* every RETR / STOR / APPE ran in the type that was selected for it.
C38_CachedModeIsServerType ==
    user.call = "mode"
    => /\ user.transfer_mode = user.server_type
       /\ \A i \in 1..Len(user.runs) : user.runs[i].mode = user.runs[i].type

\* C39: in every state of every session logged_in implies connected and
\* connected implies that cmd_socket is set, also after a send that failed
\* or a read that hit the end of the stream.
C39_SessionFlagsNested ==
    \A s \in ClientIds :
        /\ client[s].logged_in => client[s].connected
        /\ client[s].connected => client[s].cmd_socket

\* C40: once close_all has returned (it left validation_timer None) no
\* validator timer is scheduled again, so no validator pass starts again,
\* also when a pass that had already fired runs on after close_all.
C40_NoTimerAfterCloseAll ==
    [][validation_timer = "none" => (validation_timer' = "none" /\ ~timer_armed')]_vars

=============================================================================
